---- MODULE Spec2Model ----
(***************************************************************************)
(* CHIP-8 interpreter on a COSMAC VIP memory layout: the flat 4K RAM       *)
(* (memory.rs), the instruction engine (interpreter.rs: reset, step,      *)
(* key injection) and the diagnostic-build panics (debug.rs).              *)
(*                                                                         *)
(* All CHIP-8 visible state lives in `ram` at fixed offsets, as in the     *)
(* source.  The engine-resident state is the two timer expiry marks.  The  *)
(* clock (`now`) is the mockable Instant of the source, counted in         *)
(* microseconds so that Duration::as_millis really truncates.              *)
(***************************************************************************)
EXTENDS Integers, Sequences, FiniteSets, TLC

VARIABLES
    ram,            \* CosmacRAM.data: the non-zero bytes, by address
    timer_expiry,   \* Chip8Interpreter.timer_expiry : None or an instant
    tone_expiry,    \* Chip8Interpreter.tone_expiry  : None or an instant
    now,            \* the clock read by Instant::now()
    fatal,          \* NoPanic, or the panic that terminated the process
    last,           \* history: the operation that produced this state
    calls,          \* history: addresses of the calls not yet returned from
    tset,           \* history: the last value given to each timer, and when; was
                    \* a timer set since the latest reset?
    held,           \* history: the key the latest step found depressed while waiting
    io              \* history: arguments and result of the latest call on CosmacRAM

vars == <<ram, timer_expiry, tone_expiry, now, fatal, last, calls, tset, held, io>>

\* Option<T>: None is the empty sequence, Some(v) the one-element sequence
None == << >>
Some(v) == << v >>
unwrap(o) == o[1]

\* a panic is a record; NoPanic is the value of `fatal` while the process lives
Panic(kind, value) == [kind |-> kind, value |-> value]
NoPanic == Panic("NoPanic", 0)

(***************************************************************************)
(* Bounds of the model (not program constants).                            *)
(***************************************************************************)
MaxClock == 52000            \* the clock is advanced up to this many microseconds
MaxJiffies == 3              \* timer programs set a timer to 0..MaxJiffies
MaxCalls == 2                \* calls made on a CosmacRAM directly

(***************************************************************************)
(* memory.rs: layout constants.                                            *)
(***************************************************************************)
MEMORY_SIZE == 4096
MEMORY_START_ADDRESS == 0
PROGRAM_START_ADDRESS == 512
STACK_START_ADDRESS == 3744
INTERPRETER_WORK_AREA_START_ADDRESS == 3792
DISPLAY_REFRESH_START_ADDRESS == 3840
DISPLAY_REFRESH_LAST_ADDRESS == 4095
NUM_V_REGISTERS == 16
V_REGISTERS_START_ADDRESS == DISPLAY_REFRESH_START_ADDRESS - NUM_V_REGISTERS
PROGRAM_LAST_ADDRESS == STACK_START_ADDRESS - 1
PROGRAM_MAX_SIZE == PROGRAM_LAST_ADDRESS - PROGRAM_START_ADDRESS + 1

(***************************************************************************)
(* interpreter.rs: work-area offsets and key-status flags.                 *)
(***************************************************************************)
CHARACTER_BYTES_ADDRESS == 0
PROGRAM_COUNTER_ADDRESS == INTERPRETER_WORK_AREA_START_ADDRESS
I_ADDRESS == INTERPRETER_WORK_AREA_START_ADDRESS + 2
STACK_POINTER_ADDRESS == INTERPRETER_WORK_AREA_START_ADDRESS + 4
TIMER_ADDRESS == INTERPRETER_WORK_AREA_START_ADDRESS + 6
TONE_TIMER_ADDRESS == INTERPRETER_WORK_AREA_START_ADDRESS + 8
HEX_KEY_STATUS_ADDRESS == INTERPRETER_WORK_AREA_START_ADDRESS + 10
HEX_KEY_WAIT_FLAG == 4096
HEX_KEY_SEEN_WHILE_WAITING_FLAG == 256
HEX_KEY_DEPRESSED_FLAG == 16
HEX_KEY_LAST_PRESSED_MASK == 15
DISPLAY_HEIGHT_PIXELS == 32
DISPLAY_WIDTH_PIXELS == 64
STACK_LEVELS == 12           \* debug.rs: "12 * 2" in panic_if_chip8_stack_full

(***************************************************************************)
(* Machine arithmetic.  u8 and u16 values are naturals below 2^8 and 2^16; *)
(* the bitwise operators of Rust are computed bit by bit.                  *)
(***************************************************************************)
U8 == 256
U16 == 65536

\* a & b, a | b, a ^ b, four bits at a time from the low end
RECURSIVE BitAnd(_, _)
BitAnd(a, b) ==
    IF a = 0 \/ b = 0 THEN 0
    ELSE (IF a % 2 = 1 /\ b % 2 = 1 THEN 1 ELSE 0)
         + (IF (a \div 2) % 2 = 1 /\ (b \div 2) % 2 = 1 THEN 2 ELSE 0)
         + (IF (a \div 4) % 2 = 1 /\ (b \div 4) % 2 = 1 THEN 4 ELSE 0)
         + (IF (a \div 8) % 2 = 1 /\ (b \div 8) % 2 = 1 THEN 8 ELSE 0)
         + 16 * BitAnd(a \div 16, b \div 16)

RECURSIVE BitOr(_, _)
BitOr(a, b) ==
    IF a = 0 /\ b = 0 THEN 0
    ELSE (IF a % 2 = 1 \/ b % 2 = 1 THEN 1 ELSE 0)
         + (IF (a \div 2) % 2 = 1 \/ (b \div 2) % 2 = 1 THEN 2 ELSE 0)
         + (IF (a \div 4) % 2 = 1 \/ (b \div 4) % 2 = 1 THEN 4 ELSE 0)
         + (IF (a \div 8) % 2 = 1 \/ (b \div 8) % 2 = 1 THEN 8 ELSE 0)
         + 16 * BitOr(a \div 16, b \div 16)

RECURSIVE BitXor(_, _)
BitXor(a, b) ==
    IF a = 0 /\ b = 0 THEN 0
    ELSE (IF a % 2 # b % 2 THEN 1 ELSE 0)
         + (IF (a \div 2) % 2 # (b \div 2) % 2 THEN 2 ELSE 0)
         + (IF (a \div 4) % 2 # (b \div 4) % 2 THEN 4 ELSE 0)
         + (IF (a \div 8) % 2 # (b \div 8) % 2 THEN 8 ELSE 0)
         + 16 * BitXor(a \div 16, b \div 16)

\* !mask on a u16
BitNot16(a) == (U16 - 1) - a

\* 2^n
RECURSIVE Pow2(_)
Pow2(n) == IF n = 0 THEN 1 ELSE 2 * Pow2(n - 1)

\* v >> n
Shr(v, n) == v \div Pow2(n)
\* (v << n) on a u8: the bits shifted out are lost
Shl8(v, n) == (v * Pow2(n)) % U8

(***************************************************************************)
(* memory.rs: CosmacRAM.  A Result is a record [err, ram]; on Err the ram  *)
(* is the one passed in.                                                   *)
(***************************************************************************)
Addresses == 0 .. (MEMORY_SIZE - 1)

\* The array `data: [u8; MEMORY_SIZE]` is held by its non-zero bytes: a memory
\* is a function from the addresses of its non-zero bytes to those bytes, and
\* the byte at any other address is 0.  Two memories are equal exactly when
\* the arrays are.
byte_at(r, a) == IF a \in DOMAIN r THEN r[a] ELSE 0

write_byte(r, a, v) ==
    IF v = 0 THEN (IF a \in DOMAIN r THEN [x \in (DOMAIN r) \ {a} |-> r[x]] ELSE r)
    ELSE IF a \in DOMAIN r THEN [r EXCEPT ![a] = v]
    ELSE (a :> v) @@ r

\* CosmacRAM::new
CosmacRAM_new == [a \in {} |-> 0]

\* the build modelled is the diagnostic one: debug assertions and overflow
\* checks are on
DEBUG_ASSERTIONS == TRUE

Ok(r) == [err |-> "Ok", size |-> 0, ram |-> r]
Err(e, n, r) == [err |-> e, size |-> n, ram |-> r]

\* self.data[offset..][..len].copy_from_slice(bytes): byte k of the slice goes
\* to offset + k.  A short slice is written byte by byte, a long one (a whole
\* program) in one pass; the result is the same.
RECURSIVE copy_bytes(_, _, _, _)
copy_bytes(r, bytes, offset, k) ==
    IF k > Len(bytes) THEN r
    ELSE copy_bytes(write_byte(r, offset + k - 1, bytes[k]), bytes, offset, k + 1)

copy_from_slice(r, bytes, offset) ==
    IF Len(bytes) <= 3 THEN copy_bytes(r, bytes, offset, 1)
    ELSE LET inside(a) == offset <= a /\ a < offset + Len(bytes)
             kept == {a \in DOMAIN r : ~inside(a)}
             written == {offset + k - 1 : k \in {j \in 1 .. Len(bytes) : bytes[j] # 0}}
         IN  [a \in kept \cup written |-> IF inside(a) THEN bytes[a - offset + 1] ELSE r[a]]

\* CosmacRAM::zero_out_range(start..end); self.data[start..end] panics when
\* start > end
zero_out_range(r, start, end) ==
    IF end > MEMORY_SIZE THEN Err("RamOverflow", 0, r)
    ELSE IF start > end THEN Err("slice index starts after its end", start, r)
    ELSE Ok([a \in {x \in DOMAIN r : ~(start <= x /\ x < end)} |-> r[a]])

\* CosmacRAM::load_bytes.  ram_offset is a usize, a machine word: a value
\* n >= 0 stands for itself and a value n < 0 for the word 2^w + n at the top
\* of the range (usize::MAX is -1), so that the sum of the representatives
\* is the representative of the wrapped sum.  `ram_offset + bytes.len()`
\* overflows exactly when a word of the top of the range gives a sum at the
\* bottom: a build with overflow checks panics there; without them the sum
\* wraps, passes the test, and the slice index `self.data[ram_offset..]`
\* panics.  A sum that stays at the top of the range is greater than
\* MEMORY_SIZE.
load_bytes(r, bytes, ram_offset) ==
    LET end == ram_offset + Len(bytes)
    IN  IF ram_offset < 0 /\ end >= 0
            THEN (IF DEBUG_ASSERTIONS THEN Err("attempt to add with overflow", ram_offset, r)
                  ELSE IF end > MEMORY_SIZE THEN Err("RamOverflow", 0, r)
                  ELSE Err("index out of bounds", ram_offset, r))
        ELSE IF end < 0 \/ end > MEMORY_SIZE THEN Err("RamOverflow", 0, r)
        ELSE Ok(copy_from_slice(r, bytes, ram_offset))

\* a variant of load_chip8_program that rejects a program of the maximum size
load_chip8_program_off_by_one(r, chip8_program) ==
    IF Len(chip8_program) = 0 THEN Err("EmptyChip8Program", 0, r)
    ELSE IF PROGRAM_START_ADDRESS + Len(chip8_program) > PROGRAM_LAST_ADDRESS
         THEN Err("Chip8ProgramTooLarge", Len(chip8_program), r)
    ELSE Ok(copy_from_slice(r, chip8_program, PROGRAM_START_ADDRESS))

\* CosmacRAM::load_chip8_program
load_chip8_program(r, chip8_program) ==
    IF Len(chip8_program) = 0 THEN Err("EmptyChip8Program", 0, r)
    ELSE IF PROGRAM_START_ADDRESS + Len(chip8_program) - 1 > PROGRAM_LAST_ADDRESS
         THEN Err("Chip8ProgramTooLarge", Len(chip8_program), r)
    ELSE Ok(copy_from_slice(r, chip8_program, PROGRAM_START_ADDRESS))

\* a variant of to_be_bytes that puts the low byte first
to_le_bytes(value) == <<value % 256, value \div 256>>

\* u16::from_be_bytes / u16::to_be_bytes
from_be_bytes(hi, lo) == hi * 256 + lo
to_be_bytes(value) == <<value \div 256, value % 256>>

\* CosmacRAM::get_u16_at (callers guarantee address + 2 <= MEMORY_SIZE)
get_u16_at(r, address) == from_be_bytes(byte_at(r, address), byte_at(r, address + 1))

\* CosmacRAM::set_u16_at (callers guarantee address + 2 <= MEMORY_SIZE)
set_u16_at(r, address, value) == load_bytes(r, to_be_bytes(value), address).ram

\* CosmacRAM::get_v_registers()[x] and get_v_registers_mut()[x] = value
\* CosmacRAM::get_i_data: the sixteen bytes from I on; the slice panics when
\* they do not all lie in the memory
get_i_data(r) ==
    LET i == get_u16_at(r, I_ADDRESS)
    IN  IF i + 16 > MEMORY_SIZE
            THEN [err |-> "index out of bounds", size |-> i + 16, data |-> << >>]
        ELSE [err |-> "Ok", size |-> 0, data |-> [k \in 1 .. 16 |-> byte_at(r, i + k - 1)]]

get_v(r, x) == byte_at(r, V_REGISTERS_START_ADDRESS + x)
set_v(r, x, value) == write_byte(r, V_REGISTERS_START_ADDRESS + x, value)

(***************************************************************************)
(* font.rs: the glyph data and the digit -> glyph address table loaded at  *)
(* the bottom of memory.  Sixteen glyphs of five bytes, then sixteen       *)
(* one-byte glyph addresses.                                               *)
(***************************************************************************)
CHARACTER_BYTES ==
    << 240, 144, 144, 144, 240,     32,  96,  32,  32, 112,
       240,  16, 240, 128, 240,    240,  16, 240,  16, 240,
       144, 144, 240,  16,  16,    240, 128, 240,  16, 240,
       240, 128, 240, 144, 240,    240,  16,  32,  64,  64,
       240, 144, 240, 144, 240,    240, 144, 240,  16, 240,
       240, 144, 240, 144, 144,    224, 144, 224, 144, 224,
       240, 128, 128, 128, 240,    224, 144, 144, 144, 224,
       240, 128, 240, 128, 240,    240, 128, 240, 128, 128 >>
CHARACTER_MAP == [d \in 1 .. 16 |-> CHARACTER_BYTES_ADDRESS + 5 * (d - 1)]
CHARACTER_MAP_ADDRESS == CHARACTER_BYTES_ADDRESS + Len(CHARACTER_BYTES)

(***************************************************************************)
(* The clock.  An Instant is a number of microseconds; a Duration too.     *)
(***************************************************************************)
MICROS_PER_MILLI == 1000
\* Duration::from_millis
from_millis(ms) == ms * MICROS_PER_MILLI
\* a variant of as_millis that rounds up to the next millisecond
as_millis_round_up(d) == (d + MICROS_PER_MILLI - 1) \div MICROS_PER_MILLI
\* Duration::as_millis: whole milliseconds, the rest is dropped
as_millis(d) == d \div MICROS_PER_MILLI
\* Instant - Instant (saturating at zero)
instant_sub(a, b) == IF a >= b THEN a - b ELSE 0

(***************************************************************************)
(* debug.rs: the panics of a diagnostic build.  Each operator is the       *)
(* condition under which the function returns normally.                    *)
(***************************************************************************)
\* panic_if_pc_address_not_in_chip8_program_range does not panic
pc_address_in_chip8_program_range(address) ==
    PROGRAM_START_ADDRESS <= address /\ address <= PROGRAM_LAST_ADDRESS

\* a variant of i_address_in_bounds that admits every address of the memory
i_address_in_memory(address) == address < MEMORY_SIZE

\* panic_if_i_address_out_of_bounds does not panic
i_address_in_bounds(address) ==
    MEMORY_START_ADDRESS <= address /\ address <= PROGRAM_LAST_ADDRESS

\* a variant of chip8_stack_empty that never reports an empty stack
chip8_stack_never_empty(r) == FALSE

\* panic_if_chip8_stack_empty_on_subroutine_return panics
chip8_stack_empty(r) ==
    get_u16_at(r, STACK_POINTER_ADDRESS) = STACK_START_ADDRESS

\* a variant of chip8_stack_full that lets a 13th address be stacked
chip8_stack_full_13(r) ==
    get_u16_at(r, STACK_POINTER_ADDRESS) = STACK_START_ADDRESS + 13 * 2

\* panic_if_chip8_stack_full panics
chip8_stack_full(r) ==
    get_u16_at(r, STACK_POINTER_ADDRESS) = STACK_START_ADDRESS + STACK_LEVELS * 2

(***************************************************************************)
(* interpreter.rs: reset, key injection, tone query.                       *)
(***************************************************************************)
\* Chip8Interpreter::load_fonts
load_fonts(r) ==
    load_bytes(load_bytes(r, CHARACTER_BYTES, CHARACTER_BYTES_ADDRESS).ram,
               CHARACTER_MAP, CHARACTER_MAP_ADDRESS).ram

\* a variant of reset that zeroes from the work area on, not from the stack
reset_keeps_stack(r) ==
    LET zeroed == zero_out_range(r, INTERPRETER_WORK_AREA_START_ADDRESS, MEMORY_SIZE).ram
        fonts == load_fonts(zeroed)
        pc == set_u16_at(fonts, PROGRAM_COUNTER_ADDRESS, PROGRAM_START_ADDRESS)
    IN  set_u16_at(pc, STACK_POINTER_ADDRESS, STACK_START_ADDRESS)

\* a variant of reset that zeroes from the start of the program region on
reset_clears_program(r) ==
    LET zeroed == zero_out_range(r, PROGRAM_START_ADDRESS, MEMORY_SIZE).ram
        fonts == load_fonts(zeroed)
        pc == set_u16_at(fonts, PROGRAM_COUNTER_ADDRESS, PROGRAM_START_ADDRESS)
    IN  set_u16_at(pc, STACK_POINTER_ADDRESS, STACK_START_ADDRESS)

\* Chip8Interpreter::reset
reset(r) ==
    LET zeroed == zero_out_range(r, STACK_START_ADDRESS, MEMORY_SIZE).ram
        fonts == load_fonts(zeroed)
        pc == set_u16_at(fonts, PROGRAM_COUNTER_ADDRESS, PROGRAM_START_ADDRESS)
    IN  set_u16_at(pc, STACK_POINTER_ADDRESS, STACK_START_ADDRESS)

\* a variant of get_current_key_press that reports the last key while released
get_last_key_press(r) ==
    Some(BitAnd(get_u16_at(r, HEX_KEY_STATUS_ADDRESS), HEX_KEY_LAST_PRESSED_MASK))

\* Chip8Interpreter::get_current_key_press
get_current_key_press(r) ==
    LET hex_key_status == get_u16_at(r, HEX_KEY_STATUS_ADDRESS)
    IN  IF BitAnd(HEX_KEY_DEPRESSED_FLAG, hex_key_status) = 0 THEN None
        ELSE Some(BitAnd(hex_key_status, HEX_KEY_LAST_PRESSED_MASK))

\* Chip8Interpreter::set_current_key_press
\* a variant of set_current_key_press that builds the status word anew
set_current_key_press_new_word(r, current_key) ==
    set_u16_at(r, HEX_KEY_STATUS_ADDRESS,
               IF current_key = None THEN 0
               ELSE BitOr(HEX_KEY_DEPRESSED_FLAG,
                          BitAnd(unwrap(current_key), HEX_KEY_LAST_PRESSED_MASK)))

set_current_key_press(r, current_key) ==
    LET hex_key_status == get_u16_at(r, HEX_KEY_STATUS_ADDRESS)
        pressed ==
            BitOr(BitAnd(BitOr(hex_key_status, HEX_KEY_DEPRESSED_FLAG),
                         BitNot16(HEX_KEY_LAST_PRESSED_MASK)),
                  BitAnd(unwrap(current_key), HEX_KEY_LAST_PRESSED_MASK))
        released == BitAnd(hex_key_status, BitNot16(HEX_KEY_DEPRESSED_FLAG))
    IN  set_u16_at(r, HEX_KEY_STATUS_ADDRESS,
                   IF current_key = None THEN released ELSE pressed)

\* a variant of is_tone_sounding that is true from the value 1 on
is_tone_sounding_from_1(r) == get_u16_at(r, TONE_TIMER_ADDRESS) > 0

\* Chip8Interpreter::is_tone_sounding
is_tone_sounding(r) == get_u16_at(r, TONE_TIMER_ADDRESS) > 1

(***************************************************************************)
(* interpreter.rs: step, the timer update at its head.                     *)
(***************************************************************************)
\* a variant of jiffies_left that divides by 100 where the source has 1000
jiffies_left_per_100(expiry, t) ==
    IF expiry <= t THEN 0
    ELSE (as_millis(instant_sub(expiry, t)) * 60) \div 100

\* jiffies left of a running timer: 0 at or after expiry, else whole jiffies
jiffies_left(expiry, t) ==
    IF expiry <= t THEN 0
    ELSE (as_millis(instant_sub(expiry, t)) * 60) \div 1000

\* the expiry mark after the update: cleared once reached
expiry_after_update(expiry, t) ==
    IF expiry # None /\ unwrap(expiry) <= t THEN None ELSE expiry

\* a variant of update_timer that leaves the register as it was
update_timer_skipped(r, expiry, address, t) == r

\* the `if let Some(expiry)` block for the timer register at `address`
update_timer(r, expiry, address, t) ==
    IF expiry = None THEN r
    ELSE set_u16_at(r, address, jiffies_left(unwrap(expiry), t) % U16)

\* the expiry stored by FX15 / FX18
expiry_for(jiffies, t) == Some(t + from_millis((jiffies * 1000) \div 60))

(***************************************************************************)
(* interpreter.rs: step, instruction decode.  The arms of `match           *)
(* instruction`, in source order; an arm `op if op == V` has the full mask.*)
(***************************************************************************)
Arm(mask, pattern, name) == [mask |-> mask, pattern |-> pattern, name |-> name]

DecodeTable ==
    << Arm(65535, 28672, "NOOP"),     \* op == 0x7000
       Arm(61440,  4096, "1NNN"),     \* op & 0xF000 == 0x1000
       Arm(61440, 45056, "BNNN"),     \* op & 0xF000 == 0xB000
       Arm(61440,  8192, "2NNN"),     \* op & 0xF000 == 0x2000
       Arm(65535,   238, "00EE"),     \* op == 0x00EE
       Arm(61440, 12288, "3XKK"),     \* op & 0xF000 == 0x3000
       Arm(61440, 16384, "4XKK"),     \* op & 0xF000 == 0x4000
       Arm(61455, 20480, "5XY0"),     \* op & 0xF00F == 0x5000
       Arm(61455, 36864, "9XY0"),     \* op & 0xF00F == 0x9000
       Arm(61695, 57502, "EX9E"),     \* op & 0xF0FF == 0xE09E
       Arm(61695, 57505, "EXA1"),     \* op & 0xF0FF == 0xE0A1
       Arm(61440, 24576, "6XKK"),     \* op & 0xF000 == 0x6000
       Arm(61440, 49152, "CXKK"),     \* op & 0xF000 == 0xC000
       Arm(61440, 28672, "7XKK"),     \* op & 0xF000 == 0x7000
       Arm(61455, 32768, "8XY0"),     \* op & 0xF00F == 0x8000
       Arm(61455, 32769, "8XY1"),     \* op & 0xF00F == 0x8001
       Arm(61455, 32770, "8XY2"),     \* op & 0xF00F == 0x8002
       Arm(61455, 32772, "8XY4"),     \* op & 0xF00F == 0x8004
       Arm(61455, 32773, "8XY5"),     \* op & 0xF00F == 0x8005
       Arm(61695, 61447, "FX07"),     \* op & 0xF0FF == 0xF007
       Arm(61695, 61450, "FX0A"),     \* op & 0xF0FF == 0xF00A
       Arm(61695, 61461, "FX15"),     \* op & 0xF0FF == 0xF015
       Arm(61695, 61464, "FX18"),     \* op & 0xF0FF == 0xF018
       Arm(61440, 40960, "ANNN"),     \* op & 0xF000 == 0xA000
       Arm(61695, 61470, "FX1E"),     \* op & 0xF0FF == 0xF01E
       Arm(61695, 61481, "FX29"),     \* op & 0xF0FF == 0xF029
       Arm(61695, 61491, "FX33"),     \* op & 0xF0FF == 0xF033
       Arm(61695, 61525, "FX55"),     \* op & 0xF0FF == 0xF055
       Arm(61695, 61541, "FX65"),     \* op & 0xF0FF == 0xF065
       Arm(65535,   224, "00E0"),     \* op == 0x00E0
       Arm(61440, 53248, "DXYN"),     \* op & 0xF000 == 0xD000
       Arm(61440,     0, "0MMM"),     \* op & 0xF000 == 0x0000
       Arm(61455, 32771, "8XY3"),     \* op & 0xF00F == 0x8003
       Arm(61455, 32782, "8XYE"),     \* op & 0xF00F == 0x800E
       Arm(61455, 32774, "8XY6"),     \* op & 0xF00F == 0x8006
       Arm(61455, 32775, "8XY7") >>   \* op & 0xF00F == 0x8007

\* the guard of one arm
ArmMatches(op, k) == BitAnd(op, DecodeTable[k].mask) = DecodeTable[k].pattern

\* every arm whose guard the instruction satisfies
MatchingArms(op) == {k \in 1 .. Len(DecodeTable) : ArmMatches(op, k)}

\* a variant of FirstArm that takes the last arm whose guard holds
LastArm(op) == CHOOSE k \in MatchingArms(op) : \A j \in MatchingArms(op) : k >= j

\* the first arm in source order whose guard holds ...
FirstArm(op) == CHOOSE k \in MatchingArms(op) : \A j \in MatchingArms(op) : k <= j

\* ... is the one `match` executes; "_" is the fallback arm
Decode(op) ==
    IF MatchingArms(op) = {} THEN "_" ELSE DecodeTable[FirstArm(op)].name

\* operand fields of an instruction
OpX(op) == Shr(BitAnd(op, 3840), 8)       \* (op & 0x0F00) >> 8
OpY(op) == Shr(BitAnd(op, 240), 4)        \* (op & 0x00F0) >> 4
OpN(op) == BitAnd(op, 15)                 \* op & 0x000F
OpKK(op) == BitAnd(op, 255)               \* op & 0x00FF
OpNNN(op) == BitAnd(op, 4095)             \* op & 0x0FFF

(***************************************************************************)
(* interpreter.rs: step, the arms.  Each yields the memory after the arm,  *)
(* the next instruction address it computed and the panic it raised, if    *)
(* any (the memory then is the memory at the moment of the panic).         *)
(*   r: memory on entry to the arm; op: the instruction;                   *)
(*   ia: instruction_address; nia: next_instruction_address on entry.      *)
(***************************************************************************)
Res(r, next) == [ram |-> r, next |-> next, fatal |-> NoPanic]
Die(r, next, kind, value) == [ram |-> r, next |-> next, fatal |-> Panic(kind, value)]

arm_NOOP(r, op, ia, nia) == Res(r, nia)

arm_1NNN(r, op, ia, nia) == Res(r, OpNNN(op))

\* a variant of arm_BNNN that leaves out V0
arm_BNNN_no_offset(r, op, ia, nia) == Res(r, OpNNN(op))

arm_BNNN(r, op, ia, nia) == Res(r, (OpNNN(op) + get_v(r, 0)) % U16)

arm_2NNN(r, op, ia, nia) ==
    LET caller_address == get_u16_at(r, PROGRAM_COUNTER_ADDRESS)
        sp == get_u16_at(r, STACK_POINTER_ADDRESS)
        pushed == set_u16_at(r, sp, caller_address)
    IN  IF DEBUG_ASSERTIONS /\ chip8_stack_full(r)
            THEN Die(r, nia, "CHIP-8 stack overflow", 0)
        ELSE IF sp + 2 > MEMORY_SIZE
            THEN Die(r, nia, "write beyond bounds of RAM", sp)
        ELSE IF sp + 2 >= U16
            THEN Die(pushed, nia, "attempt to add with overflow", sp)
        ELSE Res(set_u16_at(pushed, STACK_POINTER_ADDRESS, sp + 2), OpNNN(op))

arm_00EE(r, op, ia, nia) ==
    LET old_sp == get_u16_at(r, STACK_POINTER_ADDRESS)
        sp == old_sp - 2
        popped == set_u16_at(r, STACK_POINTER_ADDRESS, sp)
        caller_address == get_u16_at(popped, sp)
    IN  IF DEBUG_ASSERTIONS /\ chip8_stack_empty(r)
            THEN Die(r, nia, "CHIP-8 subroutine stack is empty", 0)
        ELSE IF old_sp < 2
            THEN Die(r, nia, "attempt to subtract with overflow", old_sp)
        ELSE IF sp + 2 > MEMORY_SIZE
            THEN Die(popped, nia, "index out of bounds", sp)
        ELSE Res(popped, caller_address + 2)

skip_if(cond, nia) == IF cond THEN nia + 2 ELSE nia

arm_3XKK(r, op, ia, nia) == Res(r, skip_if(get_v(r, OpX(op)) = OpKK(op), nia))

arm_4XKK(r, op, ia, nia) == Res(r, skip_if(get_v(r, OpX(op)) # OpKK(op), nia))

arm_5XY0(r, op, ia, nia) ==
    Res(r, skip_if(get_v(r, OpX(op)) = get_v(r, OpY(op)), nia))

\* a variant of arm_9XY0 that skips on equal registers
arm_9XY0_on_equal(r, op, ia, nia) ==
    Res(r, skip_if(get_v(r, OpX(op)) = get_v(r, OpY(op)), nia))

arm_9XY0(r, op, ia, nia) ==
    Res(r, skip_if(get_v(r, OpX(op)) # get_v(r, OpY(op)), nia))

arm_EX9E(r, op, ia, nia) ==
    LET vx_lsb == BitAnd(get_v(r, OpX(op)), 15)
        key == get_current_key_press(r)
    IN  Res(r, skip_if(key # None /\ unwrap(key) = vx_lsb, nia))

arm_EXA1(r, op, ia, nia) ==
    LET vx_lsb == BitAnd(get_v(r, OpX(op)), 15)
        key == get_current_key_press(r)
    IN  Res(r, skip_if(key = None \/ unwrap(key) # vx_lsb, nia))

\* a variant of arm_6XKK that leaves the next instruction address at the
\* instruction itself
arm_6XKK_no_advance(r, op, ia, nia) == Res(set_v(r, OpX(op), OpKK(op)), ia)

arm_6XKK(r, op, ia, nia) == Res(set_v(r, OpX(op), OpKK(op)), nia)

arm_CXKK(r, op, ia, nia, random_bits) ==
    Res(set_v(r, OpX(op), BitAnd(OpKK(op), random_bits)), nia)

arm_7XKK(r, op, ia, nia) ==
    Res(set_v(r, OpX(op), (get_v(r, OpX(op)) + OpKK(op)) % U8), nia)

arm_8XY0(r, op, ia, nia) == Res(set_v(r, OpX(op), get_v(r, OpY(op))), nia)

arm_8XY1(r, op, ia, nia) ==
    Res(set_v(r, OpX(op), BitOr(get_v(r, OpX(op)), get_v(r, OpY(op)))), nia)

arm_8XY2(r, op, ia, nia) ==
    Res(set_v(r, OpX(op), BitAnd(get_v(r, OpX(op)), get_v(r, OpY(op)))), nia)

arm_8XY3(r, op, ia, nia) ==
    Res(set_v(r, OpX(op), BitXor(get_v(r, OpX(op)), get_v(r, OpY(op)))), nia)

\* a variant of arm_8XY4 that writes the carry before the sum
arm_8XY4_flag_first(r, op, ia, nia) ==
    LET vy_val == get_v(r, OpY(op))
        vx == get_v(r, OpX(op))
        carry == vx + vy_val >= U8
    IN  Res(set_v(set_v(r, 15, IF carry THEN 1 ELSE 0), OpX(op), (vx + vy_val) % U8), nia)

\* a variant of arm_8XY4 that reports the carry only past 0x100
arm_8XY4_carry_late(r, op, ia, nia) ==
    LET vy_val == get_v(r, OpY(op))
        vx == get_v(r, OpX(op))
        carry == vx + vy_val > U8
    IN  Res(set_v(set_v(r, OpX(op), (vx + vy_val) % U8), 15, IF carry THEN 1 ELSE 0), nia)

arm_8XY4(r, op, ia, nia) ==
    LET vy_val == get_v(r, OpY(op))
        vx == get_v(r, OpX(op))
        carry == vx + vy_val >= U8
    IN  Res(set_v(set_v(r, OpX(op), (vx + vy_val) % U8), 15, IF carry THEN 1 ELSE 0), nia)

arm_8XY5(r, op, ia, nia) ==
    LET vy_val == get_v(r, OpY(op))
        vx == get_v(r, OpX(op))
        borrow == IF vx < vy_val THEN 0 ELSE 1
    IN  Res(set_v(set_v(r, OpX(op), (vx - vy_val) % U8), 15, borrow), nia)

\* a variant of arm_8XY7 that takes the borrow of VX - VY
arm_8XY7_borrow_swapped(r, op, ia, nia) ==
    LET vy_val == get_v(r, OpY(op))
        vx == get_v(r, OpX(op))
        borrow == IF vx < vy_val THEN 0 ELSE 1
    IN  Res(set_v(set_v(r, OpX(op), (vy_val - vx) % U8), 15, borrow), nia)

arm_8XY7(r, op, ia, nia) ==
    LET vy_val == get_v(r, OpY(op))
        vx == get_v(r, OpX(op))
        borrow == IF vy_val < vx THEN 0 ELSE 1
    IN  Res(set_v(set_v(r, OpX(op), (vy_val - vx) % U8), 15, borrow), nia)

\* a variant of arm_8XYE that shifts VX in place
arm_8XYE_in_place(r, op, ia, nia) ==
    LET vx_val == get_v(r, OpX(op))
        overflow_bit == IF BitAnd(vx_val, 128) # 0 THEN 1 ELSE 0
    IN  Res(set_v(set_v(r, OpX(op), Shl8(vx_val, 1)), 15, overflow_bit), nia)

arm_8XYE(r, op, ia, nia) ==
    LET vy_val == get_v(r, OpY(op))
        overflow_bit == IF BitAnd(vy_val, 128) # 0 THEN 1 ELSE 0
    IN  Res(set_v(set_v(r, OpX(op), Shl8(vy_val, 1)), 15, overflow_bit), nia)

arm_8XY6(r, op, ia, nia) ==
    LET vy_val == get_v(r, OpY(op))
        overflow_bit == BitAnd(vy_val, 1)
    IN  Res(set_v(set_v(r, OpX(op), Shr(vy_val, 1)), 15, overflow_bit), nia)

arm_FX07(r, op, ia, nia) ==
    Res(set_v(r, OpX(op), BitAnd(get_u16_at(r, TIMER_ADDRESS), 255)), nia)

\* a variant of arm_FX0A that takes a key depressed at that moment as seen
arm_FX0A_sees_key(r, op, ia, nia) ==
    LET hex_key_status == get_u16_at(r, HEX_KEY_STATUS_ADDRESS)
        seen == IF BitAnd(hex_key_status, HEX_KEY_DEPRESSED_FLAG) # 0
                    THEN HEX_KEY_SEEN_WHILE_WAITING_FLAG ELSE 0
    IN  Res(set_u16_at(r, HEX_KEY_STATUS_ADDRESS,
                       BitOr(hex_key_status, BitOr(HEX_KEY_WAIT_FLAG, seen))),
            ia)

arm_FX0A(r, op, ia, nia) ==
    LET hex_key_status == get_u16_at(r, HEX_KEY_STATUS_ADDRESS)
    IN  Res(set_u16_at(r, HEX_KEY_STATUS_ADDRESS, BitOr(hex_key_status, HEX_KEY_WAIT_FLAG)),
            ia)

arm_FX15(r, op, ia, nia) == Res(set_u16_at(r, TIMER_ADDRESS, get_v(r, OpX(op))), nia)

arm_FX18(r, op, ia, nia) == Res(set_u16_at(r, TONE_TIMER_ADDRESS, get_v(r, OpX(op))), nia)

arm_ANNN(r, op, ia, nia) == Res(set_u16_at(r, I_ADDRESS, OpNNN(op)), nia)

arm_FX1E(r, op, ia, nia) ==
    Res(set_u16_at(r, I_ADDRESS, (get_u16_at(r, I_ADDRESS) + get_v(r, OpX(op))) % U16), nia)

arm_FX29(r, op, ia, nia) ==
    LET hex_val == BitAnd(get_v(r, OpX(op)), 15)
    IN  Res(set_u16_at(r, I_ADDRESS, byte_at(r, CHARACTER_MAP_ADDRESS + hex_val)), nia)

\* a variant of decimal_digits that takes the tens from the whole value
decimal_digits_tens_of_value(vx_val) ==
    LET d0 == vx_val \div 100
        d1 == vx_val \div 10
    IN  << d0, d1, vx_val % 10 >>

\* the three decimal digits FX33 computes
decimal_digits(vx_val) ==
    LET d0 == vx_val \div 100
        rest == vx_val - d0 * 100
        d1 == rest \div 10
    IN  << d0, d1, rest - d1 * 10 >>

arm_FX33(r, op, ia, nia) ==
    LET i_data == get_u16_at(r, I_ADDRESS)
        loaded == load_bytes(r, decimal_digits(get_v(r, OpX(op))), i_data)
    IN  IF loaded.err # "Ok"
            THEN Die(r, nia, "I register should point to valid memory location", i_data)
        ELSE Res(loaded.ram, nia)

\* a variant of store_registers that stops before VX
RECURSIVE store_registers_below_x(_, _, _, _)
store_registers_below_x(r, i, x, k) ==
    IF k >= x THEN Ok(r)
    ELSE IF load_bytes(r, << get_v(r, k) >>, i + k).err # "Ok" THEN Err("RamOverflow", k, r)
    ELSE store_registers_below_x(load_bytes(r, << get_v(r, k) >>, i + k).ram, i, x, k + 1)

\* FX55's loop from register k on: memory[i + k] = Vk for k in from..=x
RECURSIVE store_registers(_, _, _, _)
store_registers(r, i, x, k) ==
    IF k > x THEN Ok(r)
    ELSE IF load_bytes(r, << get_v(r, k) >>, i + k).err # "Ok" THEN Err("RamOverflow", k, r)
    ELSE store_registers(load_bytes(r, << get_v(r, k) >>, i + k).ram, i, x, k + 1)

arm_FX55(r, op, ia, nia) ==
    LET x == OpX(op)
        i == get_u16_at(r, I_ADDRESS)
        stored == store_registers(r, i, x, 0)
    IN  IF stored.err # "Ok"
            THEN Die(stored.ram, nia, "I register should point to valid memory location", i)
        ELSE IF i + x + 1 >= U16
            THEN Die(stored.ram, nia, "attempt to add with overflow", i)
        ELSE Res(set_u16_at(stored.ram, I_ADDRESS, i + x + 1), nia)

\* FX65's loop from register k on: Vk = memory[i + k] for k in from..=x
RECURSIVE load_registers(_, _, _, _)
load_registers(r, i, x, k) ==
    IF k > x THEN Ok(r)
    ELSE IF i + k >= MEMORY_SIZE THEN Err("index out of bounds", k, r)
    ELSE load_registers(set_v(r, k, byte_at(r, i + k)), i, x, k + 1)

arm_FX65(r, op, ia, nia) ==
    LET x == OpX(op)
        i == get_u16_at(r, I_ADDRESS)
        loaded == load_registers(r, i, x, 0)
    IN  IF loaded.err # "Ok"
            THEN Die(loaded.ram, nia, "index out of bounds", i)
        ELSE IF i + x + 1 >= U16
            THEN Die(loaded.ram, nia, "attempt to add with overflow", i)
        ELSE Res(set_u16_at(loaded.ram, I_ADDRESS, i + x + 1), nia)

arm_00E0(r, op, ia, nia) ==
    Res(zero_out_range(r, DISPLAY_REFRESH_START_ADDRESS,
                       DISPLAY_REFRESH_START_ADDRESS + 256).ram, nia)

arm_0MMM(r, op, ia, nia) ==
    Die(r, nia, "Emulator does not support COSMAC VIP opcode 0MMM", 0)

\* a variant of arm_unknown that skips the instruction
arm_unknown_skip(r, op, ia, nia) == Res(r, nia)

arm_unknown(r, op, ia, nia) == Die(r, nia, "Unknown CHIP-8 instruction", op)

(***************************************************************************)
(* interpreter.rs: step, DXYN.  draw_rows is the `for sprite_row in 0..n`  *)
(* loop from `sprite_row` on; d carries the memory, the collision flag and *)
(* the panic of an out-of-range sprite read.                               *)
(***************************************************************************)
Drawn(r, collision, kind) == [ram |-> r, collision |-> collision, kind |-> kind]

\* a variant of draw_row that sets the sprite's pixels instead of flipping them
draw_row_painted(r, sprite_pixel_row, address, pixel_col_offset, byte_col, collision) ==
    LET left_byte_pixels == Shr(sprite_pixel_row, pixel_col_offset)
        left_byte == byte_at(r, address)
        left_hit == BitAnd(left_byte_pixels, left_byte) # 0
        left == load_bytes(r, << BitOr(left_byte, left_byte_pixels) >>, address)
        right_byte_pixels == Shl8(sprite_pixel_row, 8 - pixel_col_offset)
        right_byte == byte_at(left.ram, address + 1)
        right_hit == BitAnd(right_byte_pixels, right_byte) # 0
        right == load_bytes(left.ram, << BitOr(right_byte, right_byte_pixels) >>, address + 1)
    IN  IF left.err # "Ok" THEN Drawn(r, collision \/ left_hit, left.err)
        ELSE IF pixel_col_offset # 0 /\ byte_col < 7
            THEN (IF right.err # "Ok"
                      THEN Drawn(left.ram, collision \/ left_hit \/ right_hit, right.err)
                  ELSE Drawn(right.ram, collision \/ left_hit \/ right_hit, "Ok"))
        ELSE Drawn(left.ram, collision \/ left_hit, "Ok")

\* a variant of draw_row that writes the right byte in the last byte column too
draw_row_wrapping(r, sprite_pixel_row, address, pixel_col_offset, byte_col, collision) ==
    LET left_byte_pixels == Shr(sprite_pixel_row, pixel_col_offset)
        left_byte == byte_at(r, address)
        left_hit == BitAnd(left_byte_pixels, left_byte) # 0
        left == load_bytes(r, << BitXor(left_byte, left_byte_pixels) >>, address)
        right_byte_pixels == Shl8(sprite_pixel_row, 8 - pixel_col_offset)
        right_byte == byte_at(left.ram, address + 1)
        right_hit == BitAnd(right_byte_pixels, right_byte) # 0
        right == load_bytes(left.ram, << BitXor(right_byte, right_byte_pixels) >>, address + 1)
    IN  IF left.err # "Ok" THEN Drawn(r, collision \/ left_hit, left.err)
        ELSE IF pixel_col_offset # 0 /\ address + 1 < MEMORY_SIZE
            THEN (IF right.err # "Ok"
                      THEN Drawn(left.ram, collision \/ left_hit \/ right_hit, right.err)
                  ELSE Drawn(right.ram, collision \/ left_hit \/ right_hit, "Ok"))
        ELSE Drawn(left.ram, collision \/ left_hit, "Ok")

\* one row: the left byte, and the right byte when the sprite straddles two;
\* an error of load_bytes ends the draw (the `expect` panics)
draw_row(r, sprite_pixel_row, address, pixel_col_offset, byte_col, collision) ==
    LET left_byte_pixels == Shr(sprite_pixel_row, pixel_col_offset)
        left_byte == byte_at(r, address)
        left_hit == BitAnd(left_byte_pixels, left_byte) # 0
        left == load_bytes(r, << BitXor(left_byte, left_byte_pixels) >>, address)
        right_byte_pixels == Shl8(sprite_pixel_row, 8 - pixel_col_offset)
        right_byte == byte_at(left.ram, address + 1)
        right_hit == BitAnd(right_byte_pixels, right_byte) # 0
        right == load_bytes(left.ram, << BitXor(right_byte, right_byte_pixels) >>, address + 1)
    IN  IF left.err # "Ok" THEN Drawn(r, collision \/ left_hit, left.err)
        ELSE IF pixel_col_offset # 0 /\ byte_col < 7
            THEN (IF right.err # "Ok"
                      THEN Drawn(left.ram, collision \/ left_hit \/ right_hit, right.err)
                  ELSE Drawn(right.ram, collision \/ left_hit \/ right_hit, "Ok"))
        ELSE Drawn(left.ram, collision \/ left_hit, "Ok")

\* a variant of draw_rows that reports the collision of the last row drawn only
RECURSIVE draw_rows_last_hit(_, _, _, _, _, _, _, _)
draw_rows_last_hit(r, i, n, sprite_row, address, pixel_col_offset, byte_col, collision) ==
    LET d == draw_row(r, byte_at(r, (i + sprite_row) % U16), address,
                      pixel_col_offset, byte_col, FALSE)
    IN  CASE sprite_row >= n -> Drawn(r, collision, "Ok")
          [] sprite_row < n /\ address > DISPLAY_REFRESH_LAST_ADDRESS ->
                Drawn(r, collision, "Ok")
          [] sprite_row < n /\ address <= DISPLAY_REFRESH_LAST_ADDRESS
                /\ (i + sprite_row) % U16 >= MEMORY_SIZE ->
                Drawn(r, collision, "index out of bounds")
          [] OTHER ->
                IF d.kind # "Ok" THEN d
                ELSE draw_rows_last_hit(d.ram, i, n, sprite_row + 1, address + 8,
                                        pixel_col_offset, byte_col, d.collision)

RECURSIVE draw_rows(_, _, _, _, _, _, _, _)
draw_rows(r, i, n, sprite_row, address, pixel_col_offset, byte_col, collision) ==
    LET d == draw_row(r, byte_at(r, (i + sprite_row) % U16), address,
                      pixel_col_offset, byte_col, collision)
    IN  CASE sprite_row >= n -> Drawn(r, collision, "Ok")
          [] sprite_row < n /\ address > DISPLAY_REFRESH_LAST_ADDRESS ->
                Drawn(r, collision, "Ok")
          [] sprite_row < n /\ address <= DISPLAY_REFRESH_LAST_ADDRESS
                /\ (i + sprite_row) % U16 >= MEMORY_SIZE ->
                Drawn(r, collision, "index out of bounds")
          [] OTHER ->
                IF d.kind # "Ok" THEN d
                ELSE draw_rows(d.ram, i, n, sprite_row + 1, address + 8,
                               pixel_col_offset, byte_col, d.collision)

\* a variant of arm_DXYN without the test of the starting row and column
arm_DXYN_unguarded(r, op, ia, nia) ==
    LET n == OpN(op)
        i == get_u16_at(r, I_ADDRESS)
        pixel_col == get_v(r, OpX(op))
        pixel_row == get_v(r, OpY(op))
        byte_col == pixel_col \div 8
        pixel_col_offset == pixel_col % 8
        address == DISPLAY_REFRESH_START_ADDRESS + (pixel_row * 8) + byte_col
        d == draw_rows(r, i, n, 0, address, pixel_col_offset, byte_col, FALSE)
    IN  IF d.kind # "Ok" THEN Die(d.ram, nia, d.kind, i)
        ELSE Res(set_v(d.ram, 15, IF d.collision THEN 1 ELSE 0), nia)

\* a variant of arm_DXYN that leaves I behind the sprite, as FX55 does
arm_DXYN_index_advanced(r, op, ia, nia) ==
    LET n == OpN(op)
        i == get_u16_at(r, I_ADDRESS)
        pixel_col == get_v(r, OpX(op))
        pixel_row == get_v(r, OpY(op))
        byte_col == pixel_col \div 8
        pixel_col_offset == pixel_col % 8
        byte_row == pixel_row
        address == DISPLAY_REFRESH_START_ADDRESS + (byte_row * 8) + byte_col
        d == IF pixel_row < DISPLAY_HEIGHT_PIXELS /\ pixel_col < DISPLAY_WIDTH_PIXELS
                THEN draw_rows(r, i, n, 0, address, pixel_col_offset, byte_col, FALSE)
             ELSE Drawn(r, FALSE, "Ok")
    IN  IF d.kind # "Ok" THEN Die(d.ram, nia, d.kind, i)
        ELSE Res(set_u16_at(set_v(d.ram, 15, IF d.collision THEN 1 ELSE 0),
                            I_ADDRESS, (i + n) % U16), nia)

arm_DXYN(r, op, ia, nia) ==
    LET n == OpN(op)
        i == get_u16_at(r, I_ADDRESS)
        pixel_col == get_v(r, OpX(op))
        pixel_row == get_v(r, OpY(op))
        byte_col == pixel_col \div 8
        pixel_col_offset == pixel_col % 8
        byte_row == pixel_row
        address == DISPLAY_REFRESH_START_ADDRESS + (byte_row * 8) + byte_col
        d == IF pixel_row < DISPLAY_HEIGHT_PIXELS /\ pixel_col < DISPLAY_WIDTH_PIXELS
                THEN draw_rows(r, i, n, 0, address, pixel_col_offset, byte_col, FALSE)
             ELSE Drawn(r, FALSE, "Ok")
    IN  IF d.kind # "Ok" THEN Die(d.ram, nia, d.kind, i)
        ELSE Res(set_v(d.ram, 15, IF d.collision THEN 1 ELSE 0), nia)

(***************************************************************************)
(* interpreter.rs: step.                                                   *)
(***************************************************************************)
\* `match instruction { ... }`
execute(r, arm, op, ia, nia, random_bits) ==
        CASE arm = "NOOP" -> arm_NOOP(r, op, ia, nia)
          [] arm = "1NNN" -> arm_1NNN(r, op, ia, nia)
          [] arm = "BNNN" -> arm_BNNN(r, op, ia, nia)
          [] arm = "2NNN" -> arm_2NNN(r, op, ia, nia)
          [] arm = "00EE" -> arm_00EE(r, op, ia, nia)
          [] arm = "3XKK" -> arm_3XKK(r, op, ia, nia)
          [] arm = "4XKK" -> arm_4XKK(r, op, ia, nia)
          [] arm = "5XY0" -> arm_5XY0(r, op, ia, nia)
          [] arm = "9XY0" -> arm_9XY0(r, op, ia, nia)
          [] arm = "EX9E" -> arm_EX9E(r, op, ia, nia)
          [] arm = "EXA1" -> arm_EXA1(r, op, ia, nia)
          [] arm = "6XKK" -> arm_6XKK(r, op, ia, nia)
          [] arm = "CXKK" -> arm_CXKK(r, op, ia, nia, random_bits)
          [] arm = "7XKK" -> arm_7XKK(r, op, ia, nia)
          [] arm = "8XY0" -> arm_8XY0(r, op, ia, nia)
          [] arm = "8XY1" -> arm_8XY1(r, op, ia, nia)
          [] arm = "8XY2" -> arm_8XY2(r, op, ia, nia)
          [] arm = "8XY4" -> arm_8XY4(r, op, ia, nia)
          [] arm = "8XY5" -> arm_8XY5(r, op, ia, nia)
          [] arm = "FX07" -> arm_FX07(r, op, ia, nia)
          [] arm = "FX0A" -> arm_FX0A(r, op, ia, nia)
          [] arm = "FX15" -> arm_FX15(r, op, ia, nia)
          [] arm = "FX18" -> arm_FX18(r, op, ia, nia)
          [] arm = "ANNN" -> arm_ANNN(r, op, ia, nia)
          [] arm = "FX1E" -> arm_FX1E(r, op, ia, nia)
          [] arm = "FX29" -> arm_FX29(r, op, ia, nia)
          [] arm = "FX33" -> arm_FX33(r, op, ia, nia)
          [] arm = "FX55" -> arm_FX55(r, op, ia, nia)
          [] arm = "FX65" -> arm_FX65(r, op, ia, nia)
          [] arm = "00E0" -> arm_00E0(r, op, ia, nia)
          [] arm = "DXYN" -> arm_DXYN(r, op, ia, nia)
          [] arm = "0MMM" -> arm_0MMM(r, op, ia, nia)
          [] arm = "8XY3" -> arm_8XY3(r, op, ia, nia)
          [] arm = "8XYE" -> arm_8XYE(r, op, ia, nia)
          [] arm = "8XY6" -> arm_8XY6(r, op, ia, nia)
          [] arm = "8XY7" -> arm_8XY7(r, op, ia, nia)
          [] OTHER -> arm_unknown(r, op, ia, nia)

\* the diagnostic checks and the commit of the next program counter that
\* follow the match; e is the result of the arm
commit(e) ==
    LET address == e.next % U16
    IN  IF e.fatal # NoPanic THEN e
        ELSE IF DEBUG_ASSERTIONS /\ ~pc_address_in_chip8_program_range(address)
            THEN Die(e.ram, e.next, "program counter outside of CHIP-8 program address range",
                     address)
        ELSE IF DEBUG_ASSERTIONS /\ ~i_address_in_bounds(get_u16_at(e.ram, I_ADDRESS))
            THEN Die(e.ram, e.next, "I address outside of normal operating range",
                     get_u16_at(e.ram, I_ADDRESS))
        ELSE Res(set_u16_at(e.ram, PROGRAM_COUNTER_ADDRESS, address), e.next)

\* a variant of key_wait_path that takes any step without a key as the release
key_wait_path_no_seen(hex_key_status) ==
    IF BitAnd(hex_key_status, HEX_KEY_DEPRESSED_FLAG) # 0 THEN "wait_pressed"
    ELSE "wait_released"

\* the branch taken while HEX_KEY_WAIT_FLAG is set; its name ...
key_wait_path(hex_key_status) ==
    IF BitAnd(hex_key_status, HEX_KEY_DEPRESSED_FLAG) # 0 THEN "wait_pressed"
    ELSE IF BitAnd(hex_key_status, HEX_KEY_SEEN_WHILE_WAITING_FLAG) # 0 THEN "wait_released"
    ELSE "wait_idle"

\* a variant of key_wait whose completion clears the wait flag only
key_wait_seen_kept(r, instruction, instruction_address) ==
    LET hex_key_status == get_u16_at(r, HEX_KEY_STATUS_ADDRESS)
        path == key_wait_path(hex_key_status)
        seen == set_u16_at(r, HEX_KEY_STATUS_ADDRESS,
                           BitOr(hex_key_status, HEX_KEY_SEEN_WHILE_WAITING_FLAG))
        key == BitAnd(get_u16_at(seen, HEX_KEY_STATUS_ADDRESS), HEX_KEY_LAST_PRESSED_MASK)
        cleared == set_u16_at(r, HEX_KEY_STATUS_ADDRESS,
                       BitAnd(hex_key_status, BitNot16(HEX_KEY_WAIT_FLAG)))
    IN  IF path = "wait_pressed" THEN set_v(seen, OpX(instruction), key % U8)
        ELSE IF path = "wait_released"
            THEN set_u16_at(cleared, PROGRAM_COUNTER_ADDRESS, (instruction_address + 2) % U16)
        ELSE r

\* ... and its effect on memory
key_wait(r, instruction, instruction_address) ==
    LET hex_key_status == get_u16_at(r, HEX_KEY_STATUS_ADDRESS)
        path == key_wait_path(hex_key_status)
        seen == set_u16_at(r, HEX_KEY_STATUS_ADDRESS,
                           BitOr(hex_key_status, HEX_KEY_SEEN_WHILE_WAITING_FLAG))
        key == BitAnd(get_u16_at(seen, HEX_KEY_STATUS_ADDRESS), HEX_KEY_LAST_PRESSED_MASK)
        cleared == set_u16_at(r, HEX_KEY_STATUS_ADDRESS,
                       BitAnd(hex_key_status,
                              BitNot16(BitOr(HEX_KEY_WAIT_FLAG,
                                             HEX_KEY_SEEN_WHILE_WAITING_FLAG))))
    IN  IF path = "wait_pressed" THEN set_v(seen, OpX(instruction), key % U8)
        ELSE IF path = "wait_released"
            THEN set_u16_at(cleared, PROGRAM_COUNTER_ADDRESS, (instruction_address + 2) % U16)
        ELSE r

\* is the step spent in the hex-key wait?
waiting(r) == BitAnd(get_u16_at(r, HEX_KEY_STATUS_ADDRESS), HEX_KEY_WAIT_FLAG) # 0

\* Chip8Interpreter::step as a function of the state it reads: the memory,
\* the two expiry marks, the clock and the byte the random source returns
step(r, te, toe, t, random_bits) ==
    LET instruction_address == get_u16_at(r, PROGRAM_COUNTER_ADDRESS)
        instruction == IF instruction_address + 2 > MEMORY_SIZE THEN 0
                       ELSE get_u16_at(r, instruction_address)
        r1 == update_timer(r, te, TIMER_ADDRESS, t)
        r2 == update_timer(r1, toe, TONE_TIMER_ADDRESS, t)
        te1 == expiry_after_update(te, t)
        toe1 == expiry_after_update(toe, t)
        arm == Decode(instruction)
        e == commit(execute(r2, arm, instruction, instruction_address,
                            instruction_address + 2, random_bits))
        out(m, a, b, p, path) ==
            [ram |-> m, timer_expiry |-> a, tone_expiry |-> b, fatal |-> p, path |-> path,
             instruction |-> instruction, instruction_address |-> instruction_address]
    IN  IF instruction_address + 2 > MEMORY_SIZE
            THEN out(r, te, toe, Panic("index out of bounds", instruction_address), "fetch")
        ELSE IF waiting(r2)
            THEN out(key_wait(r2, instruction, instruction_address), te1, toe1, NoPanic,
                     key_wait_path(get_u16_at(r2, HEX_KEY_STATUS_ADDRESS)))
        ELSE out(e.ram,
                 IF arm = "FX15" THEN expiry_for(get_v(r2, OpX(instruction)), t) ELSE te1,
                 IF arm = "FX18" THEN expiry_for(get_v(r2, OpX(instruction)), t) ELSE toe1,
                 e.fatal, arm)

(***************************************************************************)
(* Programs.  test_utils.rs: chip8_program_into_bytes! turns 16-bit        *)
(* instructions into big-endian bytes.                                     *)
(***************************************************************************)
chip8_program_into_bytes(instructions) ==
    [k \in 1 .. 2 * Len(instructions) |->
        to_be_bytes(instructions[(k + 1) \div 2])[2 - (k % 2)]]

\* tests::set_vx_register_to_current_hex_digit, looping: F40A NOOP 1200
KeyWaitProgram == chip8_program_into_bytes(<< 62474, 28672, 4608 >>)

\* a program filling the whole program region: 1E9E at 0x200 and F00A in the
\* last instruction slot, 0xE9E
KeyWaitAtEndProgram ==
    [k \in 1 .. PROGRAM_MAX_SIZE |->
        CASE k = 1 -> 30 [] k = 2 -> 158
          [] k = PROGRAM_MAX_SIZE - 1 -> 240 [] k = PROGRAM_MAX_SIZE -> 10
          [] OTHER -> 0]

\* tests::set_timer_eq_vx_and_countdown with a read-back, looping:
\* 67nn F715 F407 F407 1202
DelayTimerProgram(n) ==
    chip8_program_into_bytes(<< 26368 + n, 63253, 62471, 62471, 4610 >>)

\* tests::set_tone_timer_eq_vx_and_countdown, looping: 67nn F718 NOOP 1202
ToneTimerProgram(n) == chip8_program_into_bytes(<< 26368 + n, 63256, 28672, 4610 >>)

\* both timers running while the interpreter reads the delay timer and waits
\* for a key: 6702 F715 F718 F507 F40A 1202
TimerKeyWaitProgram ==
    chip8_program_into_bytes(<< 26370, 63253, 63256, 62727, 62474, 4610 >>)

\* tests::subroutine
SubroutineProgram == chip8_program_into_bytes(<< 8708, 4616, 28672, 238, 28672, 4608 >>)

\* tests::nested_subroutines: twelve nested calls, each returning at once
NestedSubroutinesProgram ==
    chip8_program_into_bytes(
        << 8708, 4658, 8712, 238, 8716, 238, 8720, 238, 8724, 238, 8728, 238, 8732, 238,
           8736, 238, 8740, 238, 8744, 238, 8748, 238, 8752, 238, 238, 28672 >>)

\* 2200: a subroutine that calls itself
RecursiveProgram == chip8_program_into_bytes(<< 8704 >>)

\* 00EE outside of any subroutine
ReturnProgram == chip8_program_into_bytes(<< 238 >>)

\* AE9F 6019 2208 1200 F033 00EE: the subroutine writes the decimal digits of
\* V0 at I = 0xE9F
DigitsProgram == chip8_program_into_bytes(<< 44703, 24601, 8712, 4608, 61491, 238 >>)

\* AE9A 6005 F01E F01E: I walks up to the last address of the program region
\* (0xE9F), then past it
IndexProgram == chip8_program_into_bytes(<< 44698, 24581, 61470, 61470, 4608 >>)

\* tests::panic_on_unknown_opcode
UnknownOpcodeProgram == chip8_program_into_bytes(<< 36865, 28672 >>)

\* one instruction at the start address
OneInstructionProgram(instruction) == chip8_program_into_bytes(<< instruction >>)

\* programs that read the keypad or run subroutines; no timer is set.  The empty
\* program is refused by load_chip8_program: its run ends before the reset.
KeypadPrograms ==
    { KeyWaitProgram, KeyWaitAtEndProgram, SubroutineProgram, NestedSubroutinesProgram,
      RecursiveProgram, ReturnProgram, DigitsProgram, IndexProgram, UnknownOpcodeProgram,
      << >> }

\* programs that set a timer
TimerPrograms ==
    { DelayTimerProgram(n) : n \in 0 .. MaxJiffies }
    \cup { ToneTimerProgram(n) : n \in 0 .. MaxJiffies }

\* every 16-bit value as the first instruction
InstructionPrograms == { OneInstructionProgram(instruction) : instruction \in 0 .. (U16 - 1) }

(***************************************************************************)
(* The environment: the keys the user presses, the amounts by which the    *)
(* clock advances between two calls, the bytes the random source returns.  *)
(***************************************************************************)
Keys == {3, 9}
KeyInputs == {None} \cup {Some(k) : k \in Keys}
ClockDeltas == {15000, 16100, 16900}
RandomBytes == {0, 165, 255}

(***************************************************************************)
(* The state machine.                                                      *)
(***************************************************************************)
Did(op, path, pc, instruction) ==
    [op |-> op, path |-> path, pc |-> pc, instruction |-> instruction]

\* the latest call on CosmacRAM: its arguments, what it returned, and how many
\* such calls were made
Called(args, ret, n) == [args |-> args, ret |-> ret, n |-> n]
NoCall == Called(<< >>, "-", 0)

\* tests::new_chip8_with_program / emulator::run: new RAM, program loaded, reset.
\* A program that load_chip8_program refuses ends the run there (`expect`, `?`):
\* no reset is made and no step is taken.
InitWith(programs) ==
    /\ \E program \in programs :
          LET loaded == load_chip8_program(CosmacRAM_new, program)
          IN  IF loaded.err = "Ok"
                  THEN /\ ram = reset(loaded.ram)
                       /\ fatal = NoPanic
                       /\ last = Did("reset", "-", 0, 0)
              ELSE /\ ram = loaded.ram
                   /\ fatal = Panic(loaded.err, loaded.size)
                   /\ last = Did("load_chip8_program", loaded.err, 0, 0)
    /\ timer_expiry = None
    /\ tone_expiry = None
    /\ now = 0
    /\ calls = << >>
    /\ tset = [delay |-> None, tone |-> None, armed |-> FALSE]
    /\ held = None
    /\ io = NoCall

Init == InitWith({TimerKeyWaitProgram})

\* the history of the calls in progress
calls_after(s) ==
    IF s.fatal # NoPanic THEN calls
    ELSE IF s.path = "2NNN" THEN Append(calls, s.instruction_address)
    ELSE IF s.path = "00EE" /\ Len(calls) > 0 THEN SubSeq(calls, 1, Len(calls) - 1)
    ELSE calls

\* the history of the timer settings: the value given and the instant
tset_after(s) ==
    IF s.path = "FX15"
        THEN [tset EXCEPT !.delay = Some(<< get_v(ram, OpX(s.instruction)), now >>),
                          !.armed = TRUE]
    ELSE IF s.path = "FX18"
        THEN [tset EXCEPT !.tone = Some(<< get_v(ram, OpX(s.instruction)), now >>),
                          !.armed = TRUE]
    ELSE tset

\* the history of the wait for a key: the key the latest step found depressed
\* while it waited, if that step found one
held_after(s) ==
    IF s.path = "wait_pressed"
        THEN Some(BitAnd(get_u16_at(ram, HEX_KEY_STATUS_ADDRESS), HEX_KEY_LAST_PRESSED_MASK))
    ELSE None

\* does this step call rng.random_u8()?  (only the CXKK arm does, and only
\* once the two bytes of the instruction have been fetched)
uses_random(r) ==
    LET pc == get_u16_at(r, PROGRAM_COUNTER_ADDRESS)
    IN  ~waiting(r) /\ pc + 2 <= MEMORY_SIZE /\ byte_at(r, pc) \div 16 = 12

\* chip8.step(&mut ram)
Step ==
    /\ fatal = NoPanic
    /\ \E s \in {step(ram, timer_expiry, tone_expiry, now, random_bits) :
                    random_bits \in (IF uses_random(ram) THEN RandomBytes ELSE {0})} :
          /\ ram' = s.ram
          /\ timer_expiry' = s.timer_expiry
          /\ tone_expiry' = s.tone_expiry
          /\ fatal' = s.fatal
          /\ last' = Did("step", s.path, s.instruction_address, s.instruction)
          /\ calls' = calls_after(s)
          /\ tset' = tset_after(s)
          /\ held' = held_after(s)
    /\ UNCHANGED << now, io >>

\* Chip8Interpreter::set_current_key_press(&mut ram, current_key)
SetCurrentKeyPress ==
    /\ fatal = NoPanic
    /\ \E current_key \in KeyInputs :
          /\ ram' = set_current_key_press(ram, current_key)
          /\ last' = Did("key", IF current_key = None THEN "None" ELSE "Some", 0,
                         IF current_key = None THEN 0 ELSE unwrap(current_key))
    /\ UNCHANGED << timer_expiry, tone_expiry, now, fatal, calls, tset, held, io >>

\* MockClock::advance(d) / the passing of time
AdvanceClock ==
    /\ fatal = NoPanic
    /\ \E d \in ClockDeltas : now + d <= MaxClock /\ now' = now + d
    /\ last' = Did("clock", "-", 0, 0)
    /\ UNCHANGED << ram, timer_expiry, tone_expiry, fatal, calls, tset, held, io >>

\* chip8.reset(&mut ram)
Reset ==
    /\ fatal = NoPanic
    /\ ram' = reset(ram)
    /\ last' = Did("reset", "-", 0, 0)
    /\ calls' = << >>
    /\ held' = None
    /\ tset' = [tset EXCEPT !.armed = FALSE]
    /\ UNCHANGED << timer_expiry, tone_expiry, now, fatal, io >>

\* The whole environment, on a program that sets a timer and waits for a key.
Next == Step \/ SetCurrentKeyPress \/ AdvanceClock \/ Reset

Spec == Init /\ [][Next]_vars

\* The keypad programs: steps, key presses and releases, resets.
InitKeypad == InitWith(KeypadPrograms)
NextKeypad == Step \/ SetCurrentKeyPress \/ Reset
SpecKeypad == InitKeypad /\ [][NextKeypad]_vars

\* The timer programs: steps, the passing of time, resets.
InitTimer == InitWith(TimerPrograms)
NextTimer == Step \/ AdvanceClock \/ Reset
SpecTimer == InitTimer /\ [][NextTimer]_vars

\* Every instruction value, decoded by the first step after reset.
InitDecode == InitWith(InstructionPrograms)
NextDecode == Step
SpecDecode == InitDecode /\ [][NextDecode]_vars

(***************************************************************************)
(* Chip8Interpreter::get_state: the machine state read out of memory.      *)
(***************************************************************************)
PC == get_u16_at(ram, PROGRAM_COUNTER_ADDRESS)
IReg == get_u16_at(ram, I_ADDRESS)
SP == get_u16_at(ram, STACK_POINTER_ADDRESS)
TimerReg == get_u16_at(ram, TIMER_ADDRESS)
ToneReg == get_u16_at(ram, TONE_TIMER_ADDRESS)
KeyStatus == get_u16_at(ram, HEX_KEY_STATUS_ADDRESS)
V(x) == get_v(ram, x)

\* the flags of the key status word
WaitFlag == BitAnd(KeyStatus, HEX_KEY_WAIT_FLAG) # 0
SeenFlag == BitAnd(KeyStatus, HEX_KEY_SEEN_WHILE_WAITING_FLAG) # 0
Depressed == BitAnd(KeyStatus, HEX_KEY_DEPRESSED_FLAG) # 0
LastKey == BitAnd(KeyStatus, HEX_KEY_LAST_PRESSED_MASK)

\* the bytes of the call stack, 0xEA0 ..= 0xECF
StackRegion == STACK_START_ADDRESS .. (INTERPRETER_WORK_AREA_START_ADDRESS - 1)

(***************************************************************************)
(* The hex-key wait.                                                       *)
(***************************************************************************)
WaitPaths == {"wait_idle", "wait_pressed", "wait_released"}

\* the step just taken had FX0A as its current instruction
WaitOpcodeStep == last'.op = "step" /\ last'.path \in WaitPaths \cup {"FX0A"}

\* the destination register of that FX0A
WaitX == OpX(last'.instruction)

\* C1 as stated: on the wait opcode, every step taken while a key is depressed
\* writes the key into VX and leaves the program counter; a step taken while
\* no key is depressed leaves the program counter, unless it is the first step
\* after the release, which advances it by exactly 2 with the key still in VX.
C1_WaitWritesKeyOnEveryStep ==
    [][WaitOpcodeStep =>
          /\ Depressed => (get_v(ram', WaitX) = LastKey /\ PC' = PC)
          /\ (~Depressed /\ held = None) => PC' = PC
          /\ (~Depressed /\ held # None) =>
                (PC' = PC + 2 /\ get_v(ram', WaitX) = unwrap(held))]_vars

\* C1, amended: the step that decodes FX0A only raises the wait flag: it
\* leaves the program counter and every V register, whether or not a key is
\* depressed.  On every step taken while the wait flag is raised: with a key
\* depressed the key is written into VX and the program counter stays; with no
\* key depressed and none seen by the previous step the program counter and VX
\* stay; on the first step after the release the program counter advances by
\* exactly 2 and VX holds the key that step had seen.
C1_WaitWritesKeyOncePending ==
    [][WaitOpcodeStep =>
          /\ ~WaitFlag =>
                /\ last'.path = "FX0A"
                /\ PC' = PC
                /\ \A x \in 0 .. (NUM_V_REGISTERS - 1) : V(x)' = V(x)
                /\ WaitFlag'
          /\ (WaitFlag /\ Depressed) => (get_v(ram', WaitX) = LastKey /\ PC' = PC)
          /\ (WaitFlag /\ ~Depressed /\ held = None) =>
                (PC' = PC /\ get_v(ram', WaitX) = V(WaitX))
          /\ (WaitFlag /\ ~Depressed /\ held # None) =>
                (PC' = PC + 2 /\ get_v(ram', WaitX) = unwrap(held) /\ ~WaitFlag')]_vars

\* a wait has completed: the step after the release moved past the FX0A and
\* VX holds a key
C1_WaitCompleted ==
    /\ last.op = "step"
    /\ last.path = "wait_released"
    /\ PC = last.pc + 2
    /\ V(OpX(last.instruction)) \in Keys

(***************************************************************************)
(* The diagnostic checks.                                                  *)
(***************************************************************************)
ProgramRegion == PROGRAM_START_ADDRESS .. PROGRAM_LAST_ADDRESS

\* C2 as stated: after reset and after every step that returns without a
\* fatal error, the program counter lies in the program region 0x200..=0xE9F.
C2_PcInProgramRegion ==
    (last.op \in {"reset", "step"} /\ fatal = NoPanic) => PC \in ProgramRegion

\* C3: after reset and after any steps that do not end in a fatal error, the
\* stack pointer is 0xEA0 + 2k with k in 0..12, k being the number of calls
\* not yet returned from.
C3_StackPointerValues ==
    fatal = NoPanic =>
        /\ Len(calls) \in 0 .. 12
        /\ SP = 3744 + 2 * Len(calls)

\* twelve calls are in progress and the stack pointer is at its last value
C3_StackFull ==
    /\ fatal = NoPanic
    /\ last.op = "step"
    /\ Len(calls) = 12
    /\ SP = 3768

\* C4: after every step that decodes an instruction and returns without a
\* fatal error, I lies in 0x000..=0xE9F.
C4_IndexInBounds ==
    (last.op = "step" /\ last.path \notin WaitPaths /\ fatal = NoPanic) =>
        IReg \in 0 .. 3743

\* FX1E has moved I to the last address of the range, 0xE9F
C4_IndexAtLastAddress ==
    /\ last.op = "step"
    /\ last.path = "FX1E"
    /\ fatal = NoPanic
    /\ IReg = 3743

(***************************************************************************)
(* Subroutines.                                                            *)
(***************************************************************************)
\* the 16-bit word the memory holds at an address after the step
word_after(address) == get_u16_at(ram', address)

\* C5 as stated: a call at address A stores A in the next stack slot, moves
\* the stack pointer up by one slot and jumps to NNN; a return resumes at the
\* address of the latest call not yet returned from, plus 2, with the stack
\* pointer back at the value it had before that call.
C5_ReturnResumesAfterCall ==
    [][(last'.op = "step" /\ fatal' = NoPanic) =>
          /\ last'.path = "2NNN" =>
                /\ word_after(SP) = PC
                /\ SP' = SP + 2
                /\ PC' = OpNNN(last'.instruction)
          /\ last'.path = "00EE" =>
                /\ Len(calls) > 0
                /\ PC' = calls[Len(calls)] + 2
                /\ SP' = 3744 + 2 * (Len(calls) - 1)]_vars

\* C6: a return executed with the stack pointer at the stack base is fatal,
\* a call executed with 12 return addresses stacked is fatal, and in both
\* cases the stack pointer and every byte of the stack are as before.
C6_StackFaultLeavesStack ==
    [][last'.op = "step" =>
          /\ (last'.path = "00EE" /\ SP = 3744) =>
                /\ fatal'.kind = "CHIP-8 subroutine stack is empty"
                /\ SP' = SP
                /\ \A a \in StackRegion : byte_at(ram', a) = byte_at(ram, a)
          /\ (last'.path = "2NNN" /\ Len(calls) = 12) =>
                /\ fatal'.kind = "CHIP-8 stack overflow"
                /\ SP' = SP
                /\ \A a \in StackRegion : byte_at(ram', a) = byte_at(ram, a)]_vars

\* a thirteenth call has ended in the stack overflow panic, twelve addresses
\* being stacked
C6_ThirteenthCallFatal ==
    /\ last.op = "step"
    /\ last.path = "2NNN"
    /\ fatal.kind = "CHIP-8 stack overflow"
    /\ Len(calls) = 12
    /\ SP = 3768
    /\ \A k \in 1 .. 12 : get_u16_at(ram, 3744 + 2 * (k - 1)) = calls[k]

(***************************************************************************)
(* Instruction decode.                                                     *)
(***************************************************************************)
\* the step just taken decoded an instruction
DecodedStep == last.op = "step" /\ last.path \notin WaitPaths \cup {"fetch"}

\* C7 as stated: for every 16-bit instruction value at most one arm of the
\* decode table matches, so the arm executed is the only one that matches.
C7_AtMostOneArmMatches ==
    DecodedStep =>
        /\ Cardinality(MatchingArms(last.instruction)) <= 1
        /\ \A k \in MatchingArms(last.instruction) : DecodeTable[k].name = last.path

\* the values matched by two arms, and the arms
OverlapValues == {28672, 224, 238}
ExactArm(op) == CASE op = 28672 -> "NOOP" [] op = 224 -> "00E0" [] op = 238 -> "00EE"
FamilyArm(op) == CASE op = 28672 -> "7XKK" [] op = 224 -> "0MMM" [] op = 238 -> "0MMM"

\* C7, amended: for every 16-bit instruction value other than 0x7000, 0x00E0
\* and 0x00EE at most one arm matches, and it is the arm executed.  Each of
\* these three values matches exactly two arms, its exact-value arm (NOOP,
\* 00E0, 00EE) and a family arm (7XKK for 0x7000, 0MMM for 0x00E0 and 0x00EE);
\* the exact-value arm comes first in the table and is the one executed.
C7_OnlyExactValuesOverlap ==
    DecodedStep =>
        LET op == last.instruction
            arms == MatchingArms(op)
        IN  IF op \in OverlapValues
                THEN /\ {DecodeTable[k].name : k \in arms} = {ExactArm(op), FamilyArm(op)}
                     /\ Cardinality(arms) = 2
                     /\ last.path = ExactArm(op)
                     /\ \A k \in arms : \A j \in arms :
                           (DecodeTable[k].name = ExactArm(op) => k <= j)
            ELSE /\ Cardinality(arms) <= 1
                 /\ \A k \in arms : DecodeTable[k].name = last.path

\* 0x00EE has been decoded as a return, not as a machine-code subroutine
C7_ReturnDecodedFirst ==
    /\ DecodedStep
    /\ last.instruction = 238
    /\ last.path = "00EE"
    /\ Cardinality(MatchingArms(238)) = 2

\* C8: an instruction value that matches no arm of the decode table ends the
\* step in the unknown-instruction panic, which carries the value; a value
\* 0MMM other than 0x00E0 and 0x00EE ends it in the machine-code-subroutine
\* panic; in both cases the program counter is the one the step started with.
C8_UnmatchedIsFatal ==
    DecodedStep =>
        /\ MatchingArms(last.instruction) = {} =>
              /\ fatal = Panic("Unknown CHIP-8 instruction", last.instruction)
              /\ PC = last.pc
        /\ (last.instruction < 4096 /\ last.instruction \notin {224, 238}) =>
              /\ fatal.kind = "Emulator does not support COSMAC VIP opcode 0MMM"
              /\ PC = last.pc

\* 0x9001 has ended the step in the unknown-instruction panic
C8_UnknownOpcodePanic ==
    /\ DecodedStep
    /\ last.instruction = 36865
    /\ MatchingArms(36865) = {}
    /\ fatal = Panic("Unknown CHIP-8 instruction", 36865)
    /\ PC = 512

(***************************************************************************)
(* Timers.  Instants are in microseconds.                                  *)
(***************************************************************************)
\* what a step does with one timer: `set` is the opcode that sets it
TimerStep(set, reg, reg_after, expiry, expiry_after) ==
    LET N == V(OpX(last'.instruction))
    IN  IF last'.path = set
            THEN /\ reg_after = N
                 /\ expiry_after = Some(now + ((N * 1000) \div 60) * 1000)
        ELSE expiry # None =>
                IF now >= unwrap(expiry)
                    THEN reg_after = 0 /\ expiry_after = None
                ELSE /\ reg_after = ((((unwrap(expiry) - now) \div 1000) * 60) \div 1000)
                     /\ expiry_after = expiry

\* C9: a step that executes FX15 / FX18 with VX = N leaves N in the timer
\* register and the expiry now + floor(N*1000/60) ms; every other decoding
\* step with an expiry stored leaves 0 and no expiry if now >= expiry, else
\* floor(remaining_ms * 60 / 1000) with remaining_ms the whole milliseconds of
\* expiry - now.
C9_TimerModel ==
    [][(last'.op = "step" /\ last'.path \notin WaitPaths \cup {"fetch"}) =>
          /\ TimerStep("FX15", TimerReg, TimerReg', timer_expiry, timer_expiry')
          /\ TimerStep("FX18", ToneReg, ToneReg', tone_expiry, tone_expiry')]_vars

\* a step 16.9 ms before the expiry has left 0 in the delay timer: 16 whole
\* milliseconds are less than a jiffy
C9_LastJiffyReadsZero ==
    /\ last.op = "step"
    /\ last.path # "FX15"
    /\ timer_expiry # None
    /\ unwrap(timer_expiry) - now = 16900
    /\ TimerReg = 0

\* one timer, N jiffies after it was set at instant `at`
Decay(setting, reg) ==
    setting # None =>
        LET N == unwrap(setting)[1]
            at == unwrap(setting)[2]
        IN  /\ 0 <= reg
            /\ reg <= N
            /\ (last.op = "step" /\ (now - at) * 60 >= N * 1000000) => reg = 0

\* C10: once a timer has been set to N jiffies its register is never
\* negative and never above N, and after every step taken when N/60 s or more
\* have passed since it was set, and it was not set again, the register is 0.
C10_TimerDecay ==
    /\ Decay(tset.delay, TimerReg)
    /\ Decay(tset.tone, ToneReg)

\* the delay timer was set to 2, read 1 into V4 after 15 ms, and is 0 on a
\* step taken after the full duration
C10_TwoJiffiesDecayed ==
    /\ last.op = "step"
    /\ tset.delay # None
    /\ unwrap(tset.delay)[1] = 2
    /\ (now - unwrap(tset.delay)[2]) * 60 >= 2 * 1000000
    /\ V(4) = 1
    /\ TimerReg = 0
    /\ timer_expiry = None

(***************************************************************************)
(* CosmacRAM called directly (memory.rs), as its tests do: a memory, then  *)
(* up to MaxCalls calls with arguments at and around the bounds.           *)
(***************************************************************************)
\* a memory with non-zero bytes at and around every region boundary
MarkedAddresses ==
    {0, 1, 511, 512, 513, 3743, 3744, 3745, 3791, 3792, 3793, 3796, 3797, 3801, 3839,
     3840, 3841, 3855, 4094, 4095}
MarkedRAM == [a \in MarkedAddresses |-> 165]
StartMemories == {CosmacRAM_new, MarkedRAM}

\* a program of `len` bytes: 0x12 first, 0x34 last, zeros between
ProgramOfSize(len) ==
    [k \in 1 .. len |-> IF k = 1 THEN 18 ELSE IF k = len THEN 52 ELSE 0]

ByteStrings == {<< >>, <<17>>, <<17, 34, 51, 68>>}
\* -1 is usize::MAX
Offsets == {0, 4092, 4093, 4096, 4097, -1}
RangeBounds == {0, 3744, 4096, 4097}
ProgramSizes == {0, 1, 2, PROGRAM_MAX_SIZE, PROGRAM_MAX_SIZE + 1}
WordAddresses == {TONE_TIMER_ADDRESS, MEMORY_SIZE - 2}
Words == {0, 1, 2, 256, 4660}
\* a value of I that leaves fewer than sixteen bytes behind it
IndexWords == {MEMORY_SIZE - 15}
\* the words written: each value at each address, and the values of I
WordWrites == (WordAddresses \X Words) \cup ({I_ADDRESS} \X IndexWords)
\* indices into the slice of the V registers: V1, and one past the slice
RegisterIndices == {1, NUM_V_REGISTERS}
RegisterBytesWritten == {66}

\* what a call returning Result<()> hands back
Returned(res) == [err |-> res.err, size |-> res.size]

\* the variables no call on the memory touches
MemoryCallFrame == UNCHANGED << timer_expiry, tone_expiry, now, calls, tset, held >>

\* ram.load_bytes(&bytes, offset)
LoadBytes ==
    /\ fatal = NoPanic /\ io.n < MaxCalls
    /\ \E bytes \in ByteStrings, offset \in Offsets :
          LET res == load_bytes(ram, bytes, offset)
          IN  /\ ram' = res.ram
              /\ io' = Called(<< bytes, offset >>, Returned(res), io.n + 1)
              /\ last' = Did("load_bytes", res.err, 0, 0)
              /\ fatal' = IF res.err \in {"Ok", "RamOverflow"} THEN NoPanic
                          ELSE Panic(res.err, res.size)
    /\ MemoryCallFrame

\* ram.zero_out_range(start..end)
ZeroOutRange ==
    /\ fatal = NoPanic /\ io.n < MaxCalls
    /\ \E start \in RangeBounds, end \in RangeBounds :
          LET res == zero_out_range(ram, start, end)
          IN  /\ ram' = res.ram
              /\ io' = Called(<< start, end >>, Returned(res), io.n + 1)
              /\ last' = Did("zero_out_range", res.err, 0, 0)
              /\ fatal' = IF res.err \in {"Ok", "RamOverflow"} THEN NoPanic
                          ELSE Panic(res.err, res.size)
    /\ MemoryCallFrame

\* ram.load_chip8_program(&chip8_program)
LoadChip8Program ==
    /\ fatal = NoPanic /\ io.n < MaxCalls
    /\ \E len \in ProgramSizes :
          LET res == load_chip8_program(ram, ProgramOfSize(len))
          IN  /\ ram' = res.ram
              /\ io' = Called(<< ProgramOfSize(len) >>, Returned(res), io.n + 1)
              /\ last' = Did("load_chip8_program", res.err, 0, 0)
    /\ UNCHANGED fatal
    /\ MemoryCallFrame

\* ram.set_u16_at(address, value); ram.get_u16_at(address)
SetU16At ==
    /\ fatal = NoPanic /\ io.n < MaxCalls
    /\ \E write \in WordWrites :
          LET address == write[1]
              value == write[2]
          IN  /\ ram' = set_u16_at(ram, address, value)
              /\ io' = Called(<< address, value >>,
                              get_u16_at(set_u16_at(ram, address, value), address),
                              io.n + 1)
              /\ last' = Did("set_u16_at", "-", 0, 0)
    /\ UNCHANGED fatal
    /\ MemoryCallFrame

\* Chip8Interpreter::is_tone_sounding(&ram)
IsToneSounding ==
    /\ fatal = NoPanic /\ io.n < MaxCalls
    /\ io' = Called(<< >>, is_tone_sounding(ram), io.n + 1)
    /\ last' = Did("is_tone_sounding", "-", 0, 0)
    /\ UNCHANGED << ram, fatal >>
    /\ MemoryCallFrame

\* ram.get_v_registers_mut()[x] = value; ram.get_v_registers()[x]
SetVRegister ==
    /\ fatal = NoPanic /\ io.n < MaxCalls
    /\ \E x \in RegisterIndices, value \in RegisterBytesWritten :
          IF x < NUM_V_REGISTERS
              THEN /\ ram' = set_v(ram, x, value)
                   /\ io' = Called(<< x, value >>, get_v(set_v(ram, x, value), x), io.n + 1)
                   /\ last' = Did("get_v_registers_mut", "Ok", 0, 0)
                   /\ UNCHANGED fatal
          ELSE /\ io' = Called(<< x, value >>, "-", io.n + 1)
               /\ last' = Did("get_v_registers_mut", "index out of bounds", 0, 0)
               /\ fatal' = Panic("index out of bounds", x)
               /\ UNCHANGED ram
    /\ MemoryCallFrame

\* ram.get_i_data()
GetIData ==
    /\ fatal = NoPanic /\ io.n < MaxCalls
    /\ LET res == get_i_data(ram)
       IN  /\ io' = Called(<< >>, res.data, io.n + 1)
           /\ last' = Did("get_i_data", res.err, 0, 0)
           /\ fatal' = IF res.err = "Ok" THEN NoPanic ELSE Panic(res.err, res.size)
    /\ UNCHANGED ram
    /\ MemoryCallFrame

InitMemory ==
    /\ ram \in StartMemories
    /\ timer_expiry = None
    /\ tone_expiry = None
    /\ now = 0
    /\ fatal = NoPanic
    /\ last = Did("new", "-", 0, 0)
    /\ calls = << >>
    /\ tset = [delay |-> None, tone |-> None, armed |-> FALSE]
    /\ held = None
    /\ io = NoCall

NextMemory ==
    \/ LoadBytes \/ ZeroOutRange \/ LoadChip8Program \/ SetU16At \/ SetVRegister
    \/ GetIData \/ IsToneSounding \/ Reset

SpecMemory == InitMemory /\ [][NextMemory]_vars

\* the byte a call left at address a, and the one it found there
ByteAfter(a) == byte_at(ram', a)
ByteBefore(a) == byte_at(ram, a)

\* C12: is_tone_sounding returns true exactly when the tone timer register
\* holds a value >= 2, and false for the values 0 and 1.
C12_ToneSoundsFromTwo ==
    last.op = "is_tone_sounding" =>
        /\ (io.ret = TRUE) <=> (ToneReg >= 2)
        /\ ToneReg \in {0, 1} => io.ret = FALSE

\* the tone timer holds exactly 2 and is_tone_sounding has returned true
C12_ToneSoundsAtTwo ==
    /\ last.op = "is_tone_sounding"
    /\ ToneReg = 2
    /\ io.ret = TRUE

\* C13 as stated: load_bytes(bytes, offset) returns Ok exactly when
\* offset + len <= 4096; then the bytes at [offset, offset+len) are the given
\* ones and every other byte is as before; otherwise it returns RamOverflow
\* and every byte is as before.  (An offset at the top of the usize range,
\* written as a negative number, is greater than 4096 whatever is added.)
C13_LoadBytesAllOrNothing ==
    [][last'.op = "load_bytes" =>
          LET bytes == io'.args[1]
              offset == io'.args[2]
              inside(a) == offset <= a /\ a < offset + Len(bytes)
          IN  /\ (io'.ret.err = "Ok") <=> (offset >= 0 /\ offset + Len(bytes) <= 4096)
              /\ io'.ret.err = "Ok" =>
                    \A a \in Addresses :
                        ByteAfter(a) = IF inside(a) THEN bytes[a - offset + 1]
                                       ELSE ByteBefore(a)
              /\ io'.ret.err # "Ok" =>
                    /\ io'.ret.err = "RamOverflow"
                    /\ \A a \in Addresses : ByteAfter(a) = ByteBefore(a)]_vars

\* C14 as stated: zero_out_range(start..end) with end <= 4096 returns Ok, the
\* bytes in [start, end) are zero and every other byte is as before; with
\* end > 4096 it returns RamOverflow and every byte is as before.
C14_ZeroOutRangeInBounds ==
    [][last'.op = "zero_out_range" =>
          LET start == io'.args[1]
              end == io'.args[2]
          IN  /\ end <= 4096 =>
                    /\ io'.ret.err = "Ok"
                    /\ fatal' = NoPanic
                    /\ \A a \in Addresses :
                          ByteAfter(a) = IF start <= a /\ a < end THEN 0
                                         ELSE ByteBefore(a)
              /\ end > 4096 =>
                    /\ io'.ret.err = "RamOverflow"
                    /\ \A a \in Addresses : ByteAfter(a) = ByteBefore(a)]_vars

\* C15: load_chip8_program returns EmptyChip8Program for no bytes and
\* Chip8ProgramTooLarge(len) for more than 3232 bytes, every byte being as
\* before in both cases; for 1 to 3232 bytes it returns Ok, the bytes are at
\* 0x200 onwards and every byte at or above 0xEA0 is as before.
C15_LoadProgramBounds ==
    [][last'.op = "load_chip8_program" =>
          LET program == io'.args[1]
              len == Len(program)
          IN  /\ len = 0 =>
                    /\ io'.ret.err = "EmptyChip8Program"
                    /\ \A a \in Addresses : ByteAfter(a) = ByteBefore(a)
              /\ len > 3232 =>
                    /\ io'.ret = [err |-> "Chip8ProgramTooLarge", size |-> len]
                    /\ \A a \in Addresses : ByteAfter(a) = ByteBefore(a)
              /\ (1 <= len /\ len <= 3232) =>
                    /\ io'.ret.err = "Ok"
                    /\ \A k \in 1 .. len : ByteAfter(512 + k - 1) = program[k]
                    /\ \A a \in 3744 .. 4095 : ByteAfter(a) = ByteBefore(a)]_vars

\* a program of 3232 bytes has been loaded into a memory with non-zero bytes
\* in the stack: its last byte is at 0xE9F, the stack is as it was
C15_LargestProgramLoaded ==
    /\ last.op = "load_chip8_program"
    /\ io.ret.err = "Ok"
    /\ Len(io.args[1]) = 3232
    /\ byte_at(ram, 3743) = 52
    /\ byte_at(ram, 3744) = 165

\* C16: a reset that follows an accepted load_chip8_program leaves the
\* program counter at 0x200, the stack pointer at 0xEA0 and every other byte
\* of the stack, the work area and the display buffer zero.
C16_ResetAfterLoad ==
    [][(last.op = "load_chip8_program" /\ last.path = "Ok" /\ last'.op = "reset") =>
          /\ PC' = 512
          /\ SP' = 3744
          /\ \A a \in (3744 .. 4095) \ {3792, 3793, 3796, 3797} : ByteAfter(a) = 0]_vars

\* a load and a reset have been applied to a memory that had non-zero bytes
\* in the stack, the work area and the display buffer
C16_MarkedMemoryReset ==
    /\ last.op = "reset"
    /\ io.n = 1
    /\ io.ret.err = "Ok"
    /\ Len(io.args) = 1
    /\ byte_at(ram, 511) = 165
    /\ PC = 512
    /\ SP = 3744

\* C17: set_u16_at(a, v) followed by get_u16_at(a) returns v; the high byte
\* of v is at a, the low byte at a+1, and every other byte is as before.
C17_WordRoundTrip ==
    [][last'.op = "set_u16_at" =>
          LET a == io'.args[1]
              v == io'.args[2]
          IN  /\ io'.ret = v
              /\ ByteAfter(a) = v \div 256
              /\ ByteAfter(a + 1) = v % 256
              /\ \A b \in Addresses \ {a, a + 1} : ByteAfter(b) = ByteBefore(b)]_vars

\* 0x1234 has been written at the last word of the memory and read back
C17_WordAtLastAddress ==
    /\ last.op = "set_u16_at"
    /\ io.args = << 4094, 4660 >>
    /\ io.ret = 4660
    /\ byte_at(ram, 4094) = 18
    /\ byte_at(ram, 4095) = 52

(***************************************************************************)
(* Timers and the instruction dispatch.                                    *)
(***************************************************************************)
\* what a timer register must hold once a step has re-evaluated it at `now`
Fresh(expiry, reg) ==
    IF expiry = None THEN reg
    ELSE IF now >= unwrap(expiry) THEN 0
    ELSE (((unwrap(expiry) - now) \div 1000) * 60) \div 1000

\* C11: every step re-evaluates both timers from the clock before it
\* dispatches: the registers hold the re-evaluated values after the step,
\* also when the step was spent in the hex-key wait, and FX07 puts the value
\* re-evaluated in that same step into VX.
C11_TimersBeforeDispatch ==
    [][(last'.op = "step" /\ last'.path # "fetch") =>
          /\ last'.path # "FX15" => TimerReg' = Fresh(timer_expiry, TimerReg)
          /\ last'.path # "FX18" => ToneReg' = Fresh(tone_expiry, ToneReg)
          /\ last'.path = "FX07" =>
                get_v(ram', OpX(last'.instruction)) = Fresh(timer_expiry, TimerReg) % 256
          /\ last'.path \in WaitPaths =>
                /\ TimerReg' = Fresh(timer_expiry, TimerReg)
                /\ ToneReg' = Fresh(tone_expiry, ToneReg)]_vars

\* FX07 read 1 into V5 some 15 ms after the delay timer was set to 2, and a
\* later step spent waiting for a key has brought both timers down to 0
C11_TimersRunDuringKeyWait ==
    /\ last.op = "step"
    /\ last.path \in WaitPaths
    /\ tset.delay # None
    /\ tset.tone # None
    /\ V(5) = 1
    /\ TimerReg = 0
    /\ ToneReg = 0

(***************************************************************************)
(* Single opcodes on registers that hold chosen values: the tests of        *)
(* interpreter.rs load one or two registers with 6XKK, then run the opcode. *)
(***************************************************************************)
RegisterValues == {0, 1, 19, 255}
JumpTargets == {511, 512, 564, 3488, 3743, 3744, 4095}

\* A2F0 60vv 1NNN and A2F0 60vv BNNN
JumpPrograms ==
    { chip8_program_into_bytes(<< 41712, 24576 + v, family + nnn >>) :
        v \in RegisterValues, family \in {4096, 45056}, nnn \in JumpTargets }

\* 61aa 62bb, then 31kk, 41kk, 5120 or 9120
SkipPrograms ==
    { chip8_program_into_bytes(<< 24832 + a, 25088 + b, op >>) :
        a \in RegisterValues, b \in RegisterValues,
        op \in {12544 + kk : kk \in RegisterValues} \cup {16640 + kk : kk \in RegisterValues}
                \cup {20768, 37152} }

\* 61aa, then E19E or E1A1
KeySkipPrograms ==
    { chip8_program_into_bytes(<< 24832 + a, op >>) :
        a \in {3, 9, 19, 147}, op \in {57758, 57761} }

OpcodePrograms == JumpPrograms \cup SkipPrograms \cup KeySkipPrograms

InitOpcode == InitWith(OpcodePrograms)
NextOpcode == Step \/ SetCurrentKeyPress
SpecOpcode == InitOpcode /\ [][NextOpcode]_vars

\* the registers, I, the stack pointer and the stack are as before the step
RegistersAndStackKept ==
    /\ \A x \in 0 .. 15 : get_v(ram', x) = V(x)
    /\ IReg' = IReg
    /\ SP' = SP
    /\ \A a \in StackRegion : byte_at(ram', a) = byte_at(ram, a)

\* the step returned and left `address` in the program counter, or `address`
\* is outside of the program region and the step ended in the panic of the
\* diagnostic build, the program counter being as before
NextPcIs(address) ==
    IF address \in ProgramRegion THEN fatal' = NoPanic /\ PC' = address
    ELSE /\ fatal'.kind = "program counter outside of CHIP-8 program address range"
         /\ PC' = PC

\* C18: a step of 1NNN that returns leaves exactly NNN in the program
\* counter, a step of BNNN that returns leaves NNN + V0; neither changes a V
\* register, I, the stack pointer or the stack.  (A target outside of
\* 0x200..=0xE9F ends the step in the diagnostic panic.)
C18_JumpTargets ==
    [][(last'.op = "step" /\ last'.path \in {"1NNN", "BNNN"}) =>
          LET nnn == last'.instruction % 4096
          IN  /\ last'.path = "1NNN" => NextPcIs(nnn)
              /\ last'.path = "BNNN" => NextPcIs(nnn + V(0))
              /\ RegistersAndStackKept]_vars

\* BDA0 with V0 = 0xFF has jumped to 0xE9F, with I still at 0x2F0
C18_JumpWithOffsetTaken ==
    /\ last.op = "step"
    /\ last.instruction = 48544
    /\ V(0) = 255
    /\ PC = 3743
    /\ IReg = 752
    /\ fatal = NoPanic

\* C19: a step of 3XKK, 4XKK, 5XY0 or 9XY0 that returns moves the program
\* counter by 4 when its condition holds (VX = KK, VX # KK, VX = VY, VX # VY)
\* and by 2 otherwise, and changes no V register.
C19_RegisterSkips ==
    [][(last'.op = "step" /\ last'.path \in {"3XKK", "4XKK", "5XY0", "9XY0"}) =>
          LET op == last'.instruction
              vx == V((op \div 256) % 16)
              vy == V((op \div 16) % 16)
              kk == op % 256
              cond == CASE last'.path = "3XKK" -> vx = kk
                        [] last'.path = "4XKK" -> vx # kk
                        [] last'.path = "5XY0" -> vx = vy
                        [] last'.path = "9XY0" -> vx # vy
          IN  /\ NextPcIs(PC + (IF cond THEN 4 ELSE 2))
              /\ \A x \in 0 .. 15 : get_v(ram', x) = V(x)]_vars

\* 9120 with V1 = 0x13 and V2 = 0xFF has skipped the next instruction
C19_SkipOnDifferentRegisters ==
    /\ last.op = "step"
    /\ last.instruction = 37152
    /\ V(1) = 19
    /\ V(2) = 255
    /\ PC = last.pc + 4

\* C20: a step of EX9E that returns moves the program counter by 4 exactly
\* when a key is depressed and it is the low nibble of VX, else by 2; a step
\* of EXA1 by 4 exactly when no key is depressed or the depressed key is not
\* the low nibble of VX, else by 2.  The key pressed last counts only while
\* the depressed flag is raised.
C20_KeySkips ==
    [][(last'.op = "step" /\ last'.path \in {"EX9E", "EXA1"}) =>
          LET vx == V((last'.instruction \div 256) % 16)
              pressed == Depressed /\ LastKey = vx % 16
          IN  /\ last'.path = "EX9E" => NextPcIs(PC + (IF pressed THEN 4 ELSE 2))
              /\ last'.path = "EXA1" => NextPcIs(PC + (IF pressed THEN 2 ELSE 4))]_vars

\* E19E with V1 = 0x13 has not skipped: key 3 was pressed last, but released
\* before the step
C20_ReleasedKeyNotCounted ==
    /\ last.op = "step"
    /\ last.path = "EX9E"
    /\ V(1) = 19
    /\ ~Depressed
    /\ LastKey = 3
    /\ PC = last.pc + 2

(***************************************************************************)
(* Programs that load registers, I and memory and then execute one opcode, *)
(* run from reset with nothing else happening.                             *)
(***************************************************************************)
ByteValues == {0, 1, 2, 3, 127, 128, 254, 255}

\* 61aa 6Fcc 62bb 81Yk: VX is V1, VY is V2, V1 itself or VF; k one of 4, 5, 7, E, 6;
\* 6Fcc 62bb 8FYk: VX is VF, VY is V2 or VF itself
ArithmeticPrograms ==
    { chip8_program_into_bytes(<< 24832 + a, 28416 + c, 25088 + b, 33024 + 16 * y + k >>) :
        a \in ByteValues, b \in ByteValues, c \in {0, 255}, y \in {2, 1, 15},
        k \in {4, 5, 7, 14, 6} }
    \cup
    { chip8_program_into_bytes(<< 28416 + c, 25088 + b, 36608 + 16 * y + k >>) :
        b \in ByteValues, c \in ByteValues, y \in {2, 15}, k \in {4, 5, 7, 14, 6} }

\* two sprites of fifteen rows
SpriteA == << 255, 129, 170, 85, 1, 128, 24, 60, 102, 195, 15, 240, 51, 204, 255 >>
SpriteB == << 170, 255, 1, 128, 0, 60, 195, 85, 36, 219, 240, 15, 129, 126, 255 >>

StartColumns == {0, 3, 8, 56, 60, 63, 64, 255}
StartRows == {0, 20, 30, 31, 32, 255}
RowCounts == {0, 1, 4, 15}
\* what is drawn first: nothing, SpriteA at (0, 0), SpriteA at (58, 28)
Backgrounds == {<< 0, 0, 0 >>, << 0, 0, 15 >>, << 58, 28, 15 >>}

\* A212 60cc 61rr D01n  A222 62cc 63rr 6FFF D23n, SpriteA at 0x212, SpriteB at 0x222;
\* A20C 60cc 61rr D01n D01n D01n, SpriteA at 0x20C: the same draw three times;
\* A20A 6Fcc 61rr DF1n D1Fn, SpriteA at 0x20A: VF as the column and as the row
DrawPrograms ==
    { chip8_program_into_bytes(<< 41490, 24576 + bg[1], 24832 + bg[2], 53264 + bg[3],
                                  41506, 25088 + c, 25344 + r, 28671, 53808 + n >>)
        \o SpriteA \o << 0 >> \o SpriteB :
        bg \in Backgrounds, c \in StartColumns, r \in StartRows, n \in RowCounts }
    \cup
    { chip8_program_into_bytes(<< 41484, 24576 + c, 24832 + r, 53264 + n, 53264 + n,
                                  53264 + n >>) \o SpriteA :
        c \in StartColumns, r \in StartRows, n \in RowCounts }
    \cup
    { chip8_program_into_bytes(<< 41482, 28416 + c, 24832 + r, 57104 + n, 53744 + n >>)
        \o SpriteA :
        c \in StartColumns, r \in StartRows, n \in RowCounts }

\* forty bytes 0xA0, 0xA1, ... for the bulk opcodes to overwrite and to read
BulkData == [k \in 1 .. 40 |-> 159 + k]
\* where I points: the data behind the code, and two addresses at the end of
\* the program region
BulkAddresses == {526, 3727, 3728}
BulkRegisters == {0, 2, 15}

\* 6011 6122 6233 6F44 ANNN FX55 FY65, BulkData at 0x20E
BulkPrograms ==
    { chip8_program_into_bytes(<< 24593, 24866, 25139, 28484, 40960 + nnn,
                                  61525 + 256 * x, 61541 + 256 * y >>) \o BulkData :
        nnn \in BulkAddresses, x \in BulkRegisters, y \in BulkRegisters }

\* 61vv A2F0 F133
DigitsPrograms ==
    { chip8_program_into_bytes(<< 24832 + v, 41712, 61747 >>) : v \in 0 .. 255 }

ExecutePrograms == ArithmeticPrograms \cup DrawPrograms \cup BulkPrograms \cup DigitsPrograms

InitExecute == InitWith(ExecutePrograms)
NextExecute == Step
SpecExecute == InitExecute /\ [][NextExecute]_vars

\* the step taken executes an opcode of the arm `name`, with X # F
ArithmeticStep(name) ==
    last'.op = "step" /\ last'.path = name /\ OpX(last'.instruction) # 15

StepX == OpX(last'.instruction)
StepY == OpY(last'.instruction)
VAfter(x) == get_v(ram', x)

\* C21 as stated: 8XY4 with X # F leaves (VX + VY) mod 256 in VX, the carry
\* in VF whatever VF was, and VY unchanged.
C21_AddWithCarry ==
    [][ArithmeticStep("8XY4") =>
          /\ VAfter(StepX) = (V(StepX) + V(StepY)) % 256
          /\ VAfter(15) = (IF V(StepX) + V(StepY) > 255 THEN 1 ELSE 0)
          /\ VAfter(StepY) = V(StepY)]_vars

\* C21: 8XY4 with X # F leaves (VX + VY) mod 256 in VX and the carry in VF
\* whatever VF was; VY is unchanged when Y differs from X and F.
C21_AddWithCarryOtherSource ==
    [][ArithmeticStep("8XY4") =>
          /\ VAfter(StepX) = (V(StepX) + V(StepY)) % 256
          /\ VAfter(15) = (IF V(StepX) + V(StepY) > 255 THEN 1 ELSE 0)
          /\ StepY \notin {StepX, 15} => VAfter(StepY) = V(StepY)]_vars

\* 8124 with V1 = 0xFF, V2 = 0x03 and VF = 0xFF has left 0x02 in V1, 1 in VF
C21_CarryOut ==
    /\ last.op = "step"
    /\ last.instruction = 33060
    /\ V(1) = 2
    /\ V(2) = 3
    /\ V(15) = 1
    /\ byte_at(ram, PROGRAM_START_ADDRESS + 1) = 255
    /\ byte_at(ram, PROGRAM_START_ADDRESS + 3) = 255

\* C22 as stated: 8XY5 leaves (VX - VY) mod 256 in VX and 1 in VF exactly
\* when VX >= VY; 8XY7 leaves (VY - VX) mod 256 in VX and 1 in VF exactly
\* when VY >= VX; VY is unchanged.
C22_Subtraction ==
    [][(ArithmeticStep("8XY5") \/ ArithmeticStep("8XY7")) =>
          /\ last'.path = "8XY5" =>
                /\ VAfter(StepX) = (V(StepX) - V(StepY)) % 256
                /\ VAfter(15) = (IF V(StepX) >= V(StepY) THEN 1 ELSE 0)
          /\ last'.path = "8XY7" =>
                /\ VAfter(StepX) = (V(StepY) - V(StepX)) % 256
                /\ VAfter(15) = (IF V(StepY) >= V(StepX) THEN 1 ELSE 0)
          /\ VAfter(StepY) = V(StepY)]_vars

\* C22: 8XY5 with X # F leaves (VX - VY) mod 256 in VX and 1 in VF exactly
\* when VX >= VY; 8XY7 leaves (VY - VX) mod 256 in VX and 1 in VF exactly
\* when VY >= VX; VY is unchanged when Y differs from X and F.
C22_SubtractionOtherSource ==
    [][(ArithmeticStep("8XY5") \/ ArithmeticStep("8XY7")) =>
          /\ last'.path = "8XY5" =>
                /\ VAfter(StepX) = (V(StepX) - V(StepY)) % 256
                /\ VAfter(15) = (IF V(StepX) >= V(StepY) THEN 1 ELSE 0)
          /\ last'.path = "8XY7" =>
                /\ VAfter(StepX) = (V(StepY) - V(StepX)) % 256
                /\ VAfter(15) = (IF V(StepY) >= V(StepX) THEN 1 ELSE 0)
          /\ StepY \notin {StepX, 15} => VAfter(StepY) = V(StepY)]_vars

\* 8127 with V1 = 0x03 and V2 = 0x01 has borrowed: V1 = 0xFE, VF = 0
C22_ReverseBorrow ==
    /\ last.op = "step"
    /\ last.instruction = 33063
    /\ byte_at(ram, PROGRAM_START_ADDRESS + 1) = 3
    /\ V(2) = 1
    /\ V(1) = 254
    /\ V(15) = 0

\* C23: 8XYE with X # F leaves (VY * 2) mod 256 in VX and bit 7 of VY in VF;
\* 8XY6 leaves VY div 2 in VX and bit 0 of VY in VF; VY is unchanged when Y
\* differs from X and F.
C23_ShiftsFromSource ==
    [][(ArithmeticStep("8XYE") \/ ArithmeticStep("8XY6")) =>
          /\ last'.path = "8XYE" =>
                /\ VAfter(StepX) = (V(StepY) * 2) % 256
                /\ VAfter(15) = V(StepY) \div 128
          /\ last'.path = "8XY6" =>
                /\ VAfter(StepX) = V(StepY) \div 2
                /\ VAfter(15) = V(StepY) % 2
          /\ StepY \notin {StepX, 15} => VAfter(StepY) = V(StepY)]_vars

\* 812E with V1 = 0x01 and V2 = 0xFE has left 0xFC in V1 and 1 in VF
C23_ShiftLeftOfSource ==
    /\ last.op = "step"
    /\ last.instruction = 33070
    /\ byte_at(ram, PROGRAM_START_ADDRESS + 1) = 1
    /\ V(2) = 254
    /\ V(1) = 252
    /\ V(15) = 1

\* the step taken executes DXYN and returns
DrawStep == last'.op = "step" /\ last'.path = "DXYN" /\ fatal' = NoPanic

DisplayBuffer == DISPLAY_REFRESH_START_ADDRESS .. DISPLAY_REFRESH_LAST_ADDRESS
Columns == 0 .. (DISPLAY_WIDTH_PIXELS - 1)
Rows == 0 .. (DISPLAY_HEIGHT_PIXELS - 1)

\* bit k of a byte, bit 7 being the leftmost pixel
Bit(v, k) == (v \div Pow2(k)) % 2

\* the pixel at column c of row r of the display buffer of memory m
Pixel(m, c, r) ==
    Bit(byte_at(m, DISPLAY_REFRESH_START_ADDRESS + (8 * r) + (c \div 8)), 7 - (c % 8))

\* does the sprite of the DXYN being executed have a set bit for (c, r)?
SpriteBitAt(c, r) ==
    LET vx == V(StepX)
        vy == V(StepY)
    IN  /\ 0 <= r - vy /\ r - vy < OpN(last'.instruction)
        /\ 0 <= c - vx /\ c - vx < 8
        /\ Bit(byte_at(ram, IReg + (r - vy)), 7 - (c - vx)) = 1

\* C24: a DXYN whose starting row VY is >= 32 or whose starting column VX is
\* >= 64 leaves every byte of the display buffer unchanged and VF = 0.
C24_DrawOffScreen ==
    [][(DrawStep /\ (V(StepY) >= 32 \/ V(StepX) >= 64)) =>
          /\ \A a \in DisplayBuffer : ByteAfter(a) = ByteBefore(a)
          /\ VAfter(15) = 0]_vars

\* D234 with V2 = 0 and V3 = 32 has run on a buffer holding SpriteA, with the
\* four rows of SpriteB at I: the buffer still starts with 0xFF and VF is 0
C24_DrawnBelowScreen ==
    /\ last.op = "step"
    /\ last.instruction = 53812
    /\ V(2) = 0
    /\ V(3) = 32
    /\ V(15) = 0
    /\ byte_at(ram, DISPLAY_REFRESH_START_ADDRESS) = 255
    /\ fatal = NoPanic

\* C25: a DXYN starting on the screen flips the pixel at (c, r) exactly when
\* the sprite has a set bit for it: 0 <= r - VY < N, 0 <= c - VX < 8 and bit
\* 7 - (c - VX) of sprite byte r - VY is 1.  Bits for columns >= 64 or rows
\* >= 32 go nowhere.
C25_DrawIsReferenceBlit ==
    [][(DrawStep /\ V(StepX) < 64 /\ V(StepY) < 32) =>
          \A c \in Columns : \A r \in Rows :
              (Pixel(ram', c, r) # Pixel(ram, c, r)) <=> SpriteBitAt(c, r)]_vars

\* D23F with V2 = 60 and V3 = 30 has run on an empty buffer: rows 30 and 31
\* hold the left four pixels of 0xAA and 0xFF in their last byte, and the
\* first rows of the buffer are empty
C25_ClippedAtCorner ==
    /\ last.op = "step"
    /\ last.instruction = 53823
    /\ V(2) = 60
    /\ V(3) = 30
    /\ byte_at(ram, DISPLAY_REFRESH_LAST_ADDRESS - 8) = 10
    /\ byte_at(ram, DISPLAY_REFRESH_LAST_ADDRESS) = 15
    /\ \A a \in DISPLAY_REFRESH_START_ADDRESS .. (DISPLAY_REFRESH_START_ADDRESS + 15) :
          byte_at(ram, a) = 0
    /\ fatal = NoPanic

\* the byte the sprite of the DXYN being executed brings to display address a
Incoming(a) ==
    LET r == (a - DISPLAY_REFRESH_START_ADDRESS) \div 8
        c0 == 8 * ((a - DISPLAY_REFRESH_START_ADDRESS) % 8)
        bit(k) == IF SpriteBitAt(c0 + 7 - k, r) THEN Pow2(k) ELSE 0
    IN  bit(7) + bit(6) + bit(5) + bit(4) + bit(3) + bit(2) + bit(1) + bit(0)

\* C26: after DXYN, VF is 1 exactly when a set sprite bit that lands in the
\* buffer meets a pixel that was set before the draw, and 0 otherwise (N = 0
\* included); every byte of the buffer is its old value XOR the incoming one.
C26_DrawCollision ==
    [][DrawStep =>
          /\ (VAfter(15) = 1) <=>
                \E c \in Columns : \E r \in Rows :
                    SpriteBitAt(c, r) /\ Pixel(ram, c, r) = 1
          /\ VAfter(15) \in {0, 1}
          /\ \A a \in DisplayBuffer : ByteAfter(a) = BitXor(ByteBefore(a), Incoming(a))]_vars

\* D231 with V2 = V3 = 0 has drawn 0xAA on the 0xFF of SpriteA's first row
C26_CollisionOnFilledByte ==
    /\ last.op = "step"
    /\ last.instruction = 53809
    /\ V(2) = 0
    /\ V(3) = 0
    /\ byte_at(ram, DISPLAY_REFRESH_START_ADDRESS) = 85
    /\ V(15) = 1

\* the addresses of the program counter and of I in the work area
PcAndIndexWords == PROGRAM_COUNTER_ADDRESS .. (I_ADDRESS + 1)
RegisterBytes == V_REGISTERS_START_ADDRESS .. (V_REGISTERS_START_ADDRESS + 15)

\* C27: FX55 copies V0..=VX to memory[I ..= I+X], FX65 copies memory[I ..=
\* I+X] to V0..=VX; a step that returns leaves the old I + X + 1 in I; the
\* registers above VX (FX65), and all memory outside of I ..= I+X and of the
\* words of the program counter and of I (FX55), are unchanged.
C27_BulkStoreLoad ==
    [][(last'.op = "step" /\ last'.path \in {"FX55", "FX65"}) =>
          LET x == StepX
          IN  /\ fatal' = NoPanic <=> IReg + x + 1 <= PROGRAM_LAST_ADDRESS
              /\ fatal' = NoPanic => IReg' = IReg + x + 1
              /\ last'.path = "FX55" =>
                    /\ \A k \in 0 .. x : ByteAfter(IReg + k) = V(k)
                    /\ \A a \in Addresses \ ((IReg .. (IReg + x)) \cup PcAndIndexWords) :
                          ByteAfter(a) = ByteBefore(a)
              /\ last'.path = "FX65" =>
                    /\ \A k \in 0 .. x : VAfter(k) = ByteBefore(IReg + k)
                    /\ \A k \in (x + 1) .. 15 : VAfter(k) = V(k)
                    /\ \A a \in Addresses \ (RegisterBytes \cup PcAndIndexWords) :
                          ByteAfter(a) = ByteBefore(a)]_vars

\* F255 then F265 have run with I = 0x20E: 0x11 0x22 0x33 are at 0x20E.., the
\* byte behind them is as loaded, V0..V2 hold the next three bytes, VF is
\* as set, and I is 0x214
C27_StoredThenLoaded ==
    /\ last.op = "step"
    /\ last.instruction = 62053
    /\ byte_at(ram, 526) = 17
    /\ byte_at(ram, 528) = 51
    /\ byte_at(ram, 529) = 163
    /\ V(0) = 163
    /\ V(2) = 165
    /\ V(3) = 0
    /\ V(15) = 68
    /\ IReg = 532

\* C28: the three bytes FX33 writes at I, I+1, I+2 are digits d0, d1, d2 in
\* 0..=9 with 100*d0 + 10*d1 + d2 = VX; I and VX are unchanged.
C28_DecimalDigits ==
    [][(last'.op = "step" /\ last'.path = "FX33" /\ fatal' = NoPanic) =>
          LET d0 == ByteAfter(IReg)
              d1 == ByteAfter(IReg + 1)
              d2 == ByteAfter(IReg + 2)
          IN  /\ {d0, d1, d2} \subseteq 0 .. 9
              /\ 100 * d0 + 10 * d1 + d2 = V(StepX)
              /\ IReg' = IReg
              /\ VAfter(StepX) = V(StepX)]_vars

\* F133 with V1 = 209 has written 2, 0, 9 at 0x2F0
C28_DigitsOf209 ==
    /\ last.op = "step"
    /\ last.instruction = 61747
    /\ V(1) = 209
    /\ IReg = 752
    /\ byte_at(ram, 752) = 2
    /\ byte_at(ram, 753) = 0
    /\ byte_at(ram, 754) = 9

\* the bits of the key status word other than the depressed flag and the key
OtherStatusBits(status) ==
    BitAnd(status, BitNot16(BitOr(HEX_KEY_DEPRESSED_FLAG, HEX_KEY_LAST_PRESSED_MASK)))

\* C29: set_current_key_press(Some(k)) raises the depressed flag and puts k in
\* the low nibble of the key status word; set_current_key_press(None) lowers
\* the depressed flag and keeps the nibble; neither changes the wait flag, the
\* seen flag, another bit of the word or another byte of memory.
C29_KeyInjection ==
    [][last'.op = "key" =>
          /\ last'.path = "Some" => Depressed' /\ LastKey' = last'.instruction
          /\ last'.path = "None" => ~Depressed' /\ LastKey' = LastKey
          /\ WaitFlag' = WaitFlag
          /\ SeenFlag' = SeenFlag
          /\ OtherStatusBits(KeyStatus') = OtherStatusBits(KeyStatus)
          /\ \A a \in Addresses \ {HEX_KEY_STATUS_ADDRESS, HEX_KEY_STATUS_ADDRESS + 1} :
                ByteAfter(a) = ByteBefore(a)]_vars

\* key 3 was seen by the waiting FX0A and has just been released: the wait is
\* still pending and the nibble still holds 3
C29_ReleasedWhileWaiting ==
    /\ last.op = "key"
    /\ last.path = "None"
    /\ WaitFlag
    /\ SeenFlag
    /\ ~Depressed
    /\ LastKey = 3

\* the arms that are no jump, call, return, skip or key wait (and no panic)
PlainArms ==
    {"NOOP", "6XKK", "CXKK", "7XKK", "8XY0", "8XY1", "8XY2", "8XY3", "8XY4", "8XY5",
     "8XY6", "8XY7", "8XYE", "FX07", "FX15", "FX18", "ANNN", "FX1E", "FX29", "FX33",
     "FX55", "FX65", "00E0", "DXYN"}

\* C30: a step that executes an opcode of a plain arm and returns leaves the
\* address of the instruction + 2 in the program counter (a step that ends in
\* a panic leaves the program counter as it was).
C30_PlainOpcodesAdvanceByTwo ==
    [][(last'.op = "step" /\ last'.path \in PlainArms) =>
          /\ last'.pc = PC
          /\ fatal' = NoPanic => PC' = PC + 2
          /\ fatal' # NoPanic => PC' = PC]_vars

\* FF65 was the first instruction and has been executed: the program counter
\* is 0x202 and I is 16
C30_AfterBulkLoad ==
    /\ last.op = "step"
    /\ last.path = "FX65"
    /\ last.instruction = 65381
    /\ PC = PROGRAM_START_ADDRESS + 2
    /\ IReg = 16
    /\ fatal = NoPanic

(***************************************************************************)
(* What an opcode leaves alone.                                            *)
(***************************************************************************)
\* the two timer registers, rewritten at the head of a step while a timer runs
TimerWords == {TIMER_ADDRESS, TIMER_ADDRESS + 1, TONE_TIMER_ADDRESS, TONE_TIMER_ADDRESS + 1}
PcWord == {PROGRAM_COUNTER_ADDRESS, PROGRAM_COUNTER_ADDRESS + 1}

\* C31: a DXYN that returns changes no byte outside of the display buffer
\* 0xF00..=0xFFF, VF and the program counter (and of a timer register, which
\* the head of the step rewrites while that timer runs): I, the sprite bytes,
\* V0..VE, the stack and the program region are as before, for every start
\* position, row count and sprite.
C31_DrawFrame ==
    [][DrawStep =>
          /\ \A a \in Addresses \ (DisplayBuffer \cup {V_REGISTERS_START_ADDRESS + 15}
                                      \cup PcWord \cup TimerWords) :
                ByteAfter(a) = ByteBefore(a)
          /\ (timer_expiry = None /\ tone_expiry = None) =>
                \A a \in TimerWords : ByteAfter(a) = ByteBefore(a)
          /\ IReg' = IReg
          /\ \A k \in 0 .. 14 : VAfter(k) = V(k)
          /\ \A k \in 0 .. (OpN(last'.instruction) - 1) :
                ByteAfter(IReg + k) = ByteBefore(IReg + k)]_vars

\* D234 with V2 = 3 and V3 = 20 has drawn four rows of SpriteB below SpriteA:
\* row 20 starts with 0xAA >> 3, I is still 0x222 and the sprite is in place
C31_DrawnWithIndexKept ==
    /\ last.op = "step"
    /\ last.instruction = 53812
    /\ V(2) = 3
    /\ V(3) = 20
    /\ byte_at(ram, DISPLAY_REFRESH_START_ADDRESS) = 255
    /\ byte_at(ram, DISPLAY_REFRESH_START_ADDRESS + 160) = 21
    /\ IReg = 546
    /\ byte_at(ram, 546) = 170
    /\ byte_at(ram, 549) = 128
    /\ fatal = NoPanic

\* the glyphs and the glyph address table at the bottom of memory
FontArea == CHARACTER_BYTES_ADDRESS .. (CHARACTER_MAP_ADDRESS + Len(CHARACTER_MAP) - 1)

\* C32: reset leaves every byte of the program region 0x200..=0xE9F as it
\* was, however many resets are made and whatever was loaded there; the only
\* bytes a reset changes are those of the font area and of 0xEA0..=0xFFF.
C32_ResetKeepsProgram ==
    [][last'.op = "reset" =>
          /\ \A a \in ProgramRegion : ByteAfter(a) = ByteBefore(a)
          /\ \A a \in Addresses \ (FontArea \cup (STACK_START_ADDRESS .. (MEMORY_SIZE - 1))) :
                ByteAfter(a) = ByteBefore(a)]_vars

\* a program of the maximum size was loaded into the marked memory, a second
\* call was made and the memory was reset: the first and the last byte of the
\* program are in place, the byte before the program too; the glyph of 0 is
\* at address 0 and the stack and the display buffer are zeroed
C32_ProgramKeptByReset ==
    /\ last.op = "reset"
    /\ io.n = 2
    /\ byte_at(ram, PROGRAM_START_ADDRESS) = 18
    /\ byte_at(ram, PROGRAM_LAST_ADDRESS) = 52
    /\ byte_at(ram, PROGRAM_START_ADDRESS - 1) = 165
    /\ byte_at(ram, 0) = 240
    /\ byte_at(ram, STACK_START_ADDRESS) = 0
    /\ byte_at(ram, MEMORY_SIZE - 1) = 0
    /\ PC = PROGRAM_START_ADDRESS

(***************************************************************************)
(* The timers across a reset.                                              *)
(***************************************************************************)
\* C33 as stated: after a reset, both timer registers read 0 after every step
\* until a step executes FX15 or FX18, also when a timer set before the reset
\* had not expired yet.
C33_TimersZeroAfterReset ==
    (last.op = "step" /\ ~tset.armed) => (TimerReg = 0 /\ ToneReg = 0)


\* C34 as stated: while the clock stands where it stood when FX15 (FX18) set
\* a timer to N = VX, the timer register reads N after every step.
C34_TimerKeptWhileClockStands ==
    (last.op = "step" /\ tset.armed) =>
        /\ (tset.delay # None /\ unwrap(tset.delay)[2] = now) =>
              TimerReg = unwrap(tset.delay)[1]
        /\ (tset.tone # None /\ unwrap(tset.tone)[2] = now) =>
              ToneReg = unwrap(tset.tone)[1]

(***************************************************************************)
(* The hex-key wait and the key injections between the steps.              *)
(***************************************************************************)
\* the step taken ends the pending wait: the flag is lowered and the program
\* counter is past the FX0A
WaitCompletes == ~WaitFlag' /\ PC' = PC + 2

\* C35: a step taken while a wait is pending observes a key exactly when a key
\* is depressed at that step; the wait completes at a step exactly when no
\* key is depressed at it and an earlier step of the wait observed one (held:
\* a step that does not observe one after a step that did is the completing
\* one, so `held` is set exactly while such an earlier step exists); otherwise
\* the wait stays pending with the program counter on the FX0A.  The step
\* that executes FX0A starts the wait without observing, so a key held then
\* counts if it is still held at the next step, without a new press.  A key
\* injection changes neither the wait flag nor what the steps have observed:
\* a key pressed and released between two steps leaves no trace but the key
\* nibble.
C35_WaitCompletion ==
    [][/\ (last'.op = "step" /\ WaitFlag) =>
             /\ last'.path \in WaitPaths
             /\ (held' # None) <=> Depressed
             /\ Depressed => held' = Some(LastKey)
             /\ WaitCompletes <=> (~Depressed /\ held # None)
             /\ ~WaitCompletes => (WaitFlag' /\ PC' = PC)
       /\ (last'.op = "step" /\ last'.path = "FX0A") =>
             (WaitFlag' /\ PC' = PC /\ held' = None /\ fatal' = NoPanic)
       /\ last'.op = "key" =>
             /\ WaitFlag' = WaitFlag /\ SeenFlag' = SeenFlag
             /\ held' = held /\ PC' = PC
             /\ \A x \in 0 .. (NUM_V_REGISTERS - 1) : VAfter(x) = V(x)]_vars

\* FX0A has just been executed with key 9 held: the wait is pending and no
\* step has observed the key yet
C35_WaitStartedWithKeyHeld ==
    /\ last.op = "step"
    /\ last.path = "FX0A"
    /\ WaitFlag
    /\ Depressed
    /\ LastKey = 9
    /\ held = None
    /\ ~SeenFlag

(***************************************************************************)
(* The call stack under the memory-writing opcodes.                        *)
(***************************************************************************)
\* C36 as stated: with the diagnostic checks on, a step that returns and does
\* not execute 2NNN leaves every byte of the stack region 0xEA0..=0xECF as it
\* was.
C36_StackWrittenByCallOnly ==
    [][(last'.op = "step" /\ fatal' = NoPanic /\ last'.path # "2NNN") =>
          \A a \in StackRegion : ByteAfter(a) = ByteBefore(a)]_vars

(***************************************************************************)
(* The same DXYN twice in a row.                                           *)
(***************************************************************************)
\* the DXYN just executed, executed once more on the memory it left
Redrawn == arm_DXYN(ram', last'.instruction, last'.pc, last'.pc + 2)

\* the second draw finds the VX, VY, I and sprite bytes of the first
SameOperands ==
    /\ VAfter(StepX) = V(StepX)
    /\ VAfter(StepY) = V(StepY)
    /\ IReg' = IReg
    /\ \A k \in 0 .. (OpN(last'.instruction) - 1) : ByteAfter(IReg + k) = ByteBefore(IReg + k)

\* the second draw returns and leaves the buffer as it was before the first
RedrawRestores ==
    /\ Redrawn.fatal = NoPanic
    /\ \A a \in DisplayBuffer : byte_at(Redrawn.ram, a) = ByteBefore(a)

\* C37 as stated: the same DXYN executed twice with the same operands restores
\* the display buffer, and the second draw sets VF = 1 whenever the sprite has
\* a set bit that lands inside the buffer.
C37_RedrawAlwaysCollides ==
    [][(DrawStep /\ SameOperands) =>
          /\ RedrawRestores
          /\ (\E c \in Columns : \E r \in Rows : SpriteBitAt(c, r)) =>
                get_v(Redrawn.ram, 15) = 1]_vars

\* C37, amended: the same DXYN executed twice with the same operands restores
\* the display buffer; the second draw sets VF = 1 exactly when a set sprite
\* bit lands inside the buffer on a pixel that was off before the first draw,
\* and VF = 0 otherwise.
C37_DrawTwiceRestores ==
    [][(DrawStep /\ SameOperands) =>
          /\ RedrawRestores
          /\ get_v(Redrawn.ram, 15) \in {0, 1}
          /\ (get_v(Redrawn.ram, 15) = 1) <=>
                \E c \in Columns : \E r \in Rows :
                    SpriteBitAt(c, r) /\ Pixel(ram, c, r) = 0]_vars

\* the second D01F of A20C 6003 6114 D01F D01F D01F has run: the buffer is
\* empty again and VF is 1
C37_SecondDrawDone ==
    /\ last.op = "step"
    /\ last.instruction = 53279
    /\ last.pc = PROGRAM_START_ADDRESS + 8
    /\ V(0) = 3
    /\ V(1) = 20
    /\ IReg = PROGRAM_START_ADDRESS + 12
    /\ \A a \in DisplayBuffer : byte_at(ram, a) = 0
    /\ V(15) = 1
    /\ fatal = NoPanic

(***************************************************************************)
(* The flags of the key status word.                                       *)
(***************************************************************************)
\* C38: in every state reached from reset by step and set_current_key_press
\* the seen-press flag is set only if the wait flag is set, and a step that
\* decodes an instruction (the interpreter is IDLE) starts with both flags
\* clear.
C38_SeenOnlyWhileWaiting ==
    [][/\ SeenFlag => WaitFlag
       /\ SeenFlag' => WaitFlag'
       /\ (last'.op = "step" /\ last'.path \notin WaitPaths) => (~WaitFlag /\ ~SeenFlag)
       /\ (last'.op = "step" /\ last'.path \in WaitPaths) => WaitFlag]_vars

\* a wait has completed on the release of key 9: the status word holds the
\* key and no flag
C38_IdleAfterWait ==
    /\ last.op = "step"
    /\ last.path = "wait_released"
    /\ KeyStatus = 9
    /\ held = None
    /\ fatal = NoPanic

(***************************************************************************)
(* VF after the opcodes that set it, X = F included.                       *)
(***************************************************************************)
FlagArms == {"8XY4", "8XY5", "8XY6", "8XY7", "8XYE", "DXYN"}

\* the flag of the arithmetic opcode being executed, from the registers
\* before the step
FlagOf(path) ==
    CASE path = "8XY4" -> IF V(StepX) + V(StepY) >= U8 THEN 1 ELSE 0
      [] path = "8XY5" -> IF V(StepX) < V(StepY) THEN 0 ELSE 1
      [] path = "8XY7" -> IF V(StepY) < V(StepX) THEN 0 ELSE 1
      [] path = "8XY6" -> V(StepY) % 2
      [] path = "8XYE" -> V(StepY) \div 128

\* C39: after 8XY4, 8XY5, 8XY6, 8XY7, 8XYE and DXYN, VF is 0 or 1 for every
\* X and Y.  With X = F the flag is what VF holds after the step, not the
\* arithmetic result, and no other V register changes.
C39_FlagIsBit ==
    [][(last'.op = "step" /\ last'.path \in FlagArms /\ fatal' = NoPanic) =>
          /\ VAfter(15) \in {0, 1}
          /\ last'.path # "DXYN" => VAfter(15) = FlagOf(last'.path)
          /\ StepX = 15 => \A k \in 0 .. 14 : VAfter(k) = V(k)]_vars

\* 6FFF 6203 8F24 has run: 0xFF + 3 is 2 with a carry, and VF holds the carry
C39_CarryOverSum ==
    /\ last.op = "step"
    /\ last.instruction = 36644
    /\ byte_at(ram, PROGRAM_START_ADDRESS + 1) = 255
    /\ V(2) = 3
    /\ V(15) = 1
    /\ fatal = NoPanic

====
